---- MODULE Spec2Model ----
(***************************************************************************)
(* GeoClimate AI Command Center (src/app.py): the risk scoring model       *)
(* compute_route_risk, the rule-based response engine                      *)
(* generate_mock_response and the session slots the dashboard writes.      *)
(*                                                                         *)
(* Numbers.  The program computes with Python floats (IEEE-754 binary64,   *)
(* round to nearest even).  A float is modelled exactly, as the record     *)
(* [m, e] of value m * 2^e whose mantissa m is a 53-bit natural number     *)
(* held in base-2^14 limbs, least significant first (zero is m = <<>>).    *)
(* All values of the program are non-negative and far from the exponent    *)
(* limits, so sign, subnormals and overflow are not represented.           *)
(* A score rounded by round(x, 1) is held as its number of tenths          *)
(* (52.1 is 521).                                                          *)
(***************************************************************************)
EXTENDS Integers, Sequences, FiniteSets, TLC

\* ------------------------------------------------------------------------
\* Natural numbers of arbitrary size, base 2^14, least significant limb first
\* ------------------------------------------------------------------------
LimbBits == 14
LimbBase == 16384
MantBits == 53

BLimb(a, i) == IF i >= 1 /\ i <= Len(a) THEN a[i] ELSE 0

RECURSIVE BNorm(_)
BNorm(a) == IF Len(a) > 0 /\ a[Len(a)] = 0 THEN BNorm(SubSeq(a, 1, Len(a) - 1)) ELSE a

RECURSIVE IntBitLen(_)
IntBitLen(n) == IF n = 0 THEN 0 ELSE 1 + IntBitLen(n \div 2)

BBitLenN(n) == IF Len(n) = 0 THEN 0 ELSE LimbBits * (Len(n) - 1) + IntBitLen(n[Len(n)])
BBitLen(a) == BBitLenN(BNorm(a))

IntToB(n) == BNorm(<<n % LimbBase, (n \div LimbBase) % LimbBase, n \div (LimbBase * LimbBase)>>)

RECURSIVE BToIntFrom(_, _)
BToIntFrom(a, i) == IF i > Len(a) THEN 0 ELSE a[i] + LimbBase * BToIntFrom(a, i + 1)
BToInt(a) == BToIntFrom(BNorm(a), 1)

\* the limbs of the number whose columns are c (column sums below 2^30),
\* from column i with the carry of the columns below
RECURSIVE BCarryFrom(_, _, _)
BCarryFrom(c, i, carry) ==
    IF i > Len(c) /\ carry = 0 THEN <<>>
    ELSE <<(BLimb(c, i) + carry) % LimbBase>> \o
         BCarryFrom(c, i + 1, (BLimb(c, i) + carry) \div LimbBase)
BCarry(c) == BNorm(BCarryFrom(c, 1, 0))

\* a * k for a small k (0 <= k < 2^14)
BScale(a, k) == BCarry([i \in 1..Len(a) |-> a[i] * k])

\* a * b for two mantissas (at most four limbs each): the schoolbook columns
BMul(a, b) ==
    BCarry(<<BLimb(a, 1) * BLimb(b, 1),
             BLimb(a, 1) * BLimb(b, 2) + BLimb(a, 2) * BLimb(b, 1),
             BLimb(a, 1) * BLimb(b, 3) + BLimb(a, 2) * BLimb(b, 2) + BLimb(a, 3) * BLimb(b, 1),
             BLimb(a, 1) * BLimb(b, 4) + BLimb(a, 2) * BLimb(b, 3) + BLimb(a, 3) * BLimb(b, 2)
                 + BLimb(a, 4) * BLimb(b, 1),
             BLimb(a, 2) * BLimb(b, 4) + BLimb(a, 3) * BLimb(b, 3) + BLimb(a, 4) * BLimb(b, 2),
             BLimb(a, 3) * BLimb(b, 4) + BLimb(a, 4) * BLimb(b, 3),
             BLimb(a, 4) * BLimb(b, 4)>>)

BAdd(a, b) ==
    BCarry([i \in 1..(IF Len(a) > Len(b) THEN Len(a) ELSE Len(b)) |-> BLimb(a, i) + BLimb(b, i)])

Zeros(q) == [i \in 1..q |-> 0]

\* a * 2^s
BShl(a, s) ==
    BNorm(Zeros(s \div LimbBits) \o
          [i \in 1..(Len(a) + 1) |->
              ((BLimb(a, i) * (2 ^ (s % LimbBits))) % LimbBase)
              + ((BLimb(a, i - 1) * (2 ^ (s % LimbBits))) \div LimbBase)])

\* floor(t / 2^r) for r < 14
BShrBits(t, r) ==
    BNorm([i \in 1..Len(t) |->
             (t[i] \div (2 ^ r)) + (BLimb(t, i + 1) % (2 ^ r)) * (2 ^ (LimbBits - r))])

\* floor(a / 2^s)
BShr(a, s) ==
    BShrBits(IF s \div LimbBits >= Len(a) THEN <<>> ELSE SubSeq(a, (s \div LimbBits) + 1, Len(a)),
             s % LimbBits)

\* bit i of a (bit 0 is the least significant)
BBit(a, i) == (BLimb(a, (i \div LimbBits) + 1) \div (2 ^ (i % LimbBits))) % 2

\* the n low bits of a are all zero
BLowZero(a, n) ==
    /\ \A i \in 1..(n \div LimbBits) : BLimb(a, i) = 0
    /\ BLimb(a, (n \div LimbBits) + 1) % (2 ^ (n % LimbBits)) = 0

\* a / 2^s rounded to the nearest integer, ties to even (exact for s <= 0)
BShrRound(a, s) ==
    IF s <= 0 THEN BShl(a, 0 - s)
    ELSE IF BBit(a, s - 1) = 1 /\ (~BLowZero(a, s - 1) \/ BBit(a, s) = 1)
         THEN BAdd(BShr(a, s), <<1>>)
         ELSE BShr(a, s)

\* quotient and remainder of a by a small d (0 < d < 2^16), from the top limb
RECURSIVE BDivFrom(_, _, _, _, _)
BDivFrom(a, d, i, rem, q) ==
    IF i = 0 THEN [q |-> BNorm(q), r |-> rem]
    ELSE BDivFrom(a, d, i - 1, (rem * LimbBase + a[i]) % d,
                  <<(rem * LimbBase + a[i]) \div d>> \o q)
BDivSmall(a, d) == BDivFrom(a, d, Len(a), 0, <<>>)

\* ------------------------------------------------------------------------
\* binary64 arithmetic, round to nearest, ties to even
\* ------------------------------------------------------------------------
FZero == [m |-> <<>>, e |-> 0]

\* m * 2^e for a rounded mantissa m, which the rounding may have carried to
\* 54 bits
FPack(m, e) ==
    IF BBitLen(m) > MantBits THEN [m |-> BShr(m, 1), e |-> e + 1] ELSE [m |-> m, e |-> e]

\* the float nearest to P * 2^e, P having L bits
FRound(P, e, L) ==
    IF L = 0 THEN FZero ELSE FPack(BShrRound(P, L - MantBits), e + (L - MantBits))

\* the float nearest to P * 2^e
FNormalize(P, e) == FRound(P, e, BBitLen(P))

FMul(x, y) == FNormalize(BMul(x.m, y.m), x.e + y.e)

FAdd(x, y) ==
    IF x.m = <<>> THEN y
    ELSE IF y.m = <<>> THEN x
    ELSE IF x.e >= y.e THEN FNormalize(BAdd(BShl(x.m, x.e - y.e), y.m), y.e)
    ELSE FNormalize(BAdd(BShl(y.m, y.e - x.e), x.m), x.e)

FromInt(n) == FNormalize(IntToB(n), 0)

\* the float nearest to n / d: Python's int / int, and the value of a decimal
\* literal such as 1.15 = 115 / 100.  The quotient is taken with 84 extra bits
\* and a sticky bit for the remainder, so the rounding is the correct one.
GuardBits == 84
FSticky(x) == BAdd(BShl(x.q, 1), IF x.r = 0 THEN <<>> ELSE <<1>>)
FDiv(n, d) == FNormalize(FSticky(BDivSmall(BShl(IntToB(n), GuardBits), d)), 0 - (GuardBits + 1))

\* round(x, 1), as the number of tenths: the multiple of 0.1 nearest to the
\* exact value of x, ties to even (CPython float.__round__ with ndigits)
Round1(x) == BToInt(BShrRound(BScale(x.m, 10), 0 - x.e))

\* ------------------------------------------------------------------------
\* Risk tables
\* ------------------------------------------------------------------------
GEO_RISK ==
    ("default" :> 35) @@ ("Ukraine" :> 90) @@ ("Russia" :> 85) @@ ("Israel" :> 80) @@
    ("Gaza Strip" :> 92) @@ ("China" :> 60) @@ ("Taiwan" :> 70) @@ ("USA" :> 30) @@
    ("Germany" :> 25) @@ ("UK" :> 25) @@ ("India" :> 40) @@ ("Brazil" :> 45) @@
    ("South Africa" :> 40) @@ ("Australia" :> 35) @@ ("Bangladesh" :> 60) @@
    ("Philippines" :> 60) @@ ("Pakistan" :> 55) @@ ("Singapore" :> 20) @@
    ("Netherlands" :> 22) @@ ("Mexico" :> 45) @@ ("Canada" :> 20) @@ ("Japan" :> 25) @@
    ("South Korea" :> 30)

CLIMATE_RISK ==
    ("default" :> 40) @@ ("Bangladesh" :> 85) @@ ("Philippines" :> 80) @@
    ("Pakistan" :> 75) @@ ("USA" :> 45) @@ ("India" :> 65) @@ ("Australia" :> 55) @@
    ("Brazil" :> 50) @@ ("China" :> 45) @@ ("Japan" :> 40) @@ ("Mexico" :> 50)

LOGISTICS_RISK ==
    ("default" :> 35) @@ ("USA" :> 50) @@ ("China" :> 55) @@ ("Singapore" :> 40) @@
    ("Netherlands" :> 45) @@ ("Germany" :> 40) @@ ("UK" :> 45) @@ ("India" :> 50) @@
    ("Brazil" :> 48) @@ ("South Africa" :> 50) @@ ("Mexico" :> 52)

CYBER_RISK ==
    ("default" :> 40) @@ ("USA" :> 55) @@ ("European Union" :> 50) @@ ("China" :> 60) @@
    ("India" :> 45) @@ ("Japan" :> 50) @@ ("Brazil" :> 42) @@ ("UK" :> 48)

\* the set literal of compute_route_risk's conflict test
ConflictOrigins == {"Ukraine", "Russia", "Israel", "Gaza Strip", "Taiwan"}

\* get_score with 0 for a location the table does not name
get_score_zero(table, c) == IF c \in DOMAIN table THEN table[c] ELSE 0

\* table.get(c, table["default"])
get_score(table, c) == IF c \in DOMAIN table THEN table[c] ELSE table["default"]

\* ------------------------------------------------------------------------
\* Risk computation
\* ------------------------------------------------------------------------
\* the float values of the decimal literals of compute_route_risk, written out
\* as mantissa limbs and exponent (LiteralsExact states that each is the float
\* nearest to its decimal)
F1_15 == [m |-> <<9830, 6553, 9830, 1177>>, e |-> -52]  \* 1.15 = 0x1.2666666666666p+0
F0_9  == [m |-> <<3277, 13107, 3276, 1843>>, e |-> -53]  \* 0.9 = 0x1.ccccccccccccdp-1
F1_1  == [m |-> <<6554, 9830, 6553, 1126>>, e |-> -52]  \* 1.1 = 0x1.199999999999ap+0
F0_45 == [m |-> <<3277, 13107, 3276, 1843>>, e |-> -54]  \* 0.45 = 0x1.ccccccccccccdp-2
F0_35 == [m |-> <<9830, 6553, 9830, 1433>>, e |-> -54]  \* 0.35 = 0x1.6666666666666p-2
F0_3  == [m |-> <<13107, 3276, 13107, 1228>>, e |-> -54]  \* 0.3 = 0x1.3333333333333p-2
F0_25 == [m |-> <<0, 0, 0, 1024>>, e |-> -54]  \* 0.25 = 0x1.0000000000000p-2
F0_2  == [m |-> <<6554, 9830, 6553, 1638>>, e |-> -55]  \* 0.2 = 0x1.999999999999ap-3
F0_1  == [m |-> <<6554, 9830, 6553, 1638>>, e |-> -56]  \* 0.1 = 0x1.999999999999ap-4

LiteralsExact ==
    /\ F1_15 = FDiv(115, 100)
    /\ F0_9 = FDiv(9, 10)
    /\ F1_1 = FDiv(11, 10)
    /\ F0_45 = FDiv(45, 100)
    /\ F0_35 = FDiv(35, 100)
    /\ F0_3 = FDiv(3, 10)
    /\ F0_25 = FDiv(25, 100)
    /\ F0_2 = FDiv(2, 10)
    /\ F0_1 = FDiv(1, 10)

\* f / 2 for a float f (exact: the exponent lowered)
FHalf(f) == IF f.m = <<>> THEN FZero ELSE [m |-> f.m, e |-> f.e - 1]

\* n / 2 for an int n >= 0
Half(n) == FHalf(FromInt(n))

\* Weights with the first two Balanced weights exchanged
Weights_swapped(weighting) ==
    IF weighting = "Geo-heavy" THEN <<F0_45, F0_25, F0_2, F0_1>>
    ELSE IF weighting = "Climate-heavy" THEN <<F0_25, F0_45, F0_2, F0_1>>
    ELSE IF weighting = "Logistics-heavy" THEN <<F0_25, F0_2, F0_45, F0_1>>
    ELSE <<F0_3, F0_35, F0_25, F0_1>>

\* the weight list chosen by the weighting string
Weights(weighting) ==
    IF weighting = "Geo-heavy" THEN <<F0_45, F0_25, F0_2, F0_1>>
    ELSE IF weighting = "Climate-heavy" THEN <<F0_25, F0_45, F0_2, F0_1>>
    ELSE IF weighting = "Logistics-heavy" THEN <<F0_25, F0_2, F0_45, F0_1>>
    ELSE <<F0_35, F0_3, F0_25, F0_1>>

\* np.clip(t, lo, hi) on a number of tenths
Clip(t, lo, hi) == IF t < lo THEN lo ELSE IF t > hi THEN hi ELSE t

\* the season test without September
SeasonMonths_short == {6, 7, 8}

\* the months of "dep_date.month in (6, 7, 8, 9)"
SeasonMonths == {6, 7, 8, 9}

\* (get_score(table, origin) + get_score(table, dest)) / 2
Baseline(table, origin, dest) == Half(get_score(table, origin) + get_score(table, dest))

\* ModeLogistics without the branch of road
ModeLogistics_no_road(l, mode) ==
    IF mode = "sea" THEN FMul(l, F1_15)
    ELSE IF mode = "air" THEN FMul(l, F0_9)
    ELSE l

\* the mode adjustment of l
ModeLogistics(l, mode) ==
    IF mode = "sea" THEN FMul(l, F1_15)
    ELSE IF mode = "air" THEN FMul(l, F0_9)
    ELSE IF mode = "road" THEN FMul(l, F1_1)
    ELSE l

\* the mode adjustment of c
ModeClimate(c, mode) == IF mode = "air" THEN FMul(c, F0_9) ELSE c

\* the seasonal adjustment of c
SeasonClimate(c, dep_date) == IF dep_date.month \in SeasonMonths THEN FMul(c, F1_15) ELSE c

\* the conflict adjustment of g and the bump, hit being the conflict test
ConflictGeo(g, hit) == IF hit THEN FMul(g, F1_1) ELSE g
ConflictBump(hit) == IF hit THEN 10 ELSE 0

\* the values of g, c, l, cb and conflict_bump after the adjustments
AdjustedWith(origin, dest, mode, dep_date, hit) ==
    [g  |-> ConflictGeo(Baseline(GEO_RISK, origin, dest), hit),
     c  |-> SeasonClimate(ModeClimate(Baseline(CLIMATE_RISK, origin, dest), mode), dep_date),
     l  |-> ModeLogistics(Baseline(LOGISTICS_RISK, origin, dest), mode),
     cb |-> Baseline(CYBER_RISK, origin, dest),
     conflict_bump |-> ConflictBump(hit)]

\* Adjusted with the conflict test passing for the destination too
Adjusted_either_end(origin, dest, mode, dep_date, include_conflict) ==
    AdjustedWith(origin, dest, mode, dep_date,
                 include_conflict /\ (origin \in ConflictOrigins \/ dest \in ConflictOrigins))

\* the conflict test is on the origin alone
Adjusted(origin, dest, mode, dep_date, include_conflict) ==
    AdjustedWith(origin, dest, mode, dep_date, include_conflict /\ origin \in ConflictOrigins)

\* g*w[0] + c*w[1] + l*w[2] + cb*w[3] + conflict_bump, before rounding
WeightedSum(a, w) ==
    FAdd(FAdd(FAdd(FAdd(FMul(a.g, w[1]), FMul(a.c, w[2])), FMul(a.l, w[3])),
              FMul(a.cb, w[4])),
         FromInt(a.conflict_bump))

\* Scores with overall doubled and the clip left out
Scores_unclipped(a, w) ==
    [geopolitical  |-> Round1(a.g),
     climate       |-> Round1(a.c),
     logistics     |-> Round1(a.l),
     cyber         |-> Round1(a.cb),
     overall       |-> 2 * Round1(WeightedSum(a, w)),
     conflict_bump |-> a.conflict_bump]

\* Scores with every reported score clipped to [0, 100]
Scores_all_clipped(a, w) ==
    [geopolitical  |-> Clip(Round1(a.g), 0, 1000),
     climate       |-> Clip(Round1(a.c), 0, 1000),
     logistics     |-> Clip(Round1(a.l), 0, 1000),
     cyber         |-> Clip(Round1(a.cb), 0, 1000),
     overall       |-> Clip(Round1(WeightedSum(a, w)), 0, 1000),
     conflict_bump |-> a.conflict_bump]

\* the returned dict: the rounded sub-scores, the clipped rounded overall
Scores(a, w) ==
    [geopolitical  |-> Round1(a.g),
     climate       |-> Round1(a.c),
     logistics     |-> Round1(a.l),
     cyber         |-> Round1(a.cb),
     overall       |-> Clip(Round1(WeightedSum(a, w)), 0, 1000),
     conflict_bump |-> a.conflict_bump]

\* compute_route_risk with a premium of 5 on overall for time-critical cargo
compute_route_risk_premium(origin, dest, mode, dep_date, weighting, include_conflict, cargo_value, time_critical) ==
    [Scores(Adjusted(origin, dest, mode, dep_date, include_conflict), Weights(weighting))
        EXCEPT !.overall = Clip(@ + (IF time_critical THEN 50 ELSE 0), 0, 1000)]

\* the date given as a date object (every caller passes one; the isinstance
\* branch parses an ISO string first)
compute_route_risk(origin, dest, mode, dep_date, weighting, include_conflict, cargo_value, time_critical) ==
    Scores(Adjusted(origin, dest, mode, dep_date, include_conflict), Weights(weighting))

\* ------------------------------------------------------------------------
\* State
\* ------------------------------------------------------------------------
\* An optional value (Python None or a value) is <<>> or <<v>>.
None == <<>>
Some(v) == <<v>>
IsSet(x) == Len(x) > 0

VARIABLES
    last_route,         \* st.session_state["last_route"]
    last_risks,         \* st.session_state["last_risks"]
    scenario,           \* st.session_state["scenario"]
    optimizer_options,  \* st.session_state["optimizer_options"]
    multi_routes,       \* st.session_state["multi_routes"]
    today,              \* the value date.today() returns
    args,               \* the arguments of the call under study
    result,             \* what that call returned
    result2,            \* what a repeated call returned
    user_prompt,        \* the user_prompt given to ai_call
    response,           \* what ai_call returned
    pc                  \* where the run under study stands

vars == <<last_route, last_risks, scenario, optimizer_options, multi_routes, today,
          args, result, result2, user_prompt, response, pc>>

session == <<last_route, last_risks, scenario, optimizer_options, multi_routes>>

\* a session in which nothing has been run: every slot unset, the basket
\* created empty by the first rendering of the Route Analyzer
EmptySession ==
    /\ last_route = None
    /\ last_risks = None
    /\ scenario = None
    /\ optimizer_options = None
    /\ multi_routes = <<>>

Date(y, m, d) == [year |-> y, month |-> m, day |-> d]

\* ------------------------------------------------------------------------
\* SpecRisk: compute_route_risk applied to arguments drawn from RiskInputs
\* ------------------------------------------------------------------------
Gazetteer ==
    {"USA", "China", "India", "Germany", "UK", "Brazil", "South Africa", "Australia",
     "Bangladesh", "Philippines", "Pakistan", "Russia", "Ukraine", "Singapore",
     "Netherlands", "Israel", "Gaza Strip", "Mexico", "Canada", "Japan", "South Korea"}

\* locations that are in no gazetteer: one named in two tables, one named in the
\* cyber table only, one named nowhere
OtherLocations == {"Taiwan", "European Union", "Atlantis"}
SampleLocations == {"China", "USA", "Ukraine", "Gaza Strip", "European Union", "Atlantis"}

Modes == {"sea", "air", "road", "rail"}
ModeInputs == Modes \cup {"drone"}
Profiles == {"Balanced", "Geo-heavy", "Climate-heavy", "Logistics-heavy"}
ProfileInputs == Profiles \cup {"Custom"}

TwoDates == {Date(2024, 1, 15), Date(2024, 7, 15)}
MonthDates == {Date(2024, m, 15) : m \in {1, 5, 6, 7, 9, 10, 12}}

CallArgs(o, d, m, dt, w, ic, cv, tc) ==
    [origin |-> o, dest |-> d, mode |-> m, dep_date |-> dt, weighting |-> w,
     include_conflict |-> ic, cargo_value |-> cv, time_critical |-> tc]

\* the arguments drawn: every pair of locations with the Balanced profile, and
\* every mode, month, profile and flag on the sample locations; cargo_value and
\* time_critical have their default values
RiskInputs(a) ==
    \/ \E o \in Gazetteer \cup OtherLocations, d \in Gazetteer \cup OtherLocations,
          m \in ModeInputs, dt \in TwoDates, ic \in BOOLEAN :
          a = CallArgs(o, d, m, dt, "Balanced", ic, 0, FALSE)
    \/ \E o \in SampleLocations, d \in SampleLocations,
          m \in ModeInputs, dt \in MonthDates, w \in ProfileInputs, ic \in BOOLEAN :
          a = CallArgs(o, d, m, dt, w, ic, 0, FALSE)

Apply(a) ==
    compute_route_risk(a.origin, a.dest, a.mode, a.dep_date, a.weighting,
                       a.include_conflict, a.cargo_value, a.time_critical)

InitRisk ==
    /\ EmptySession
    /\ today = Date(2024, 1, 15)
    /\ RiskInputs(args)
    /\ result = None
    /\ result2 = None
    /\ user_prompt = <<>>
    /\ response = None
    /\ pc = "call"

CallRisk ==
    /\ pc = "call"
    /\ result' = Some(Apply(args))
    /\ pc' = "returned"
    /\ UNCHANGED <<session, today, args, result2, user_prompt, response>>

NextRisk == CallRisk

SpecRisk == InitRisk /\ [][NextRisk]_vars

\* ------------------------------------------------------------------------
\* Exact values, for stating what the floats approximate
\* ------------------------------------------------------------------------
\* The adjusted sub-scores and the weighted sum as exact rationals, held as
\* integers over fixed denominators.  A reported score t (in tenths) is a
\* rounding of the exact value v when |t/10 - v| <= 1/20: the float value
\* differs from v by far less than the denominators used here resolve, so only
\* at an exact tie may the float rounding go either way.
Abs(n) == IF n < 0 THEN 0 - n ELSE n

IsHit(a) == a.include_conflict /\ a.origin \in ConflictOrigins
InSeason(a) == a.dep_date.month \in {6, 7, 8, 9}

\* the entry of a table for a location: its own when the table names it, the
\* table's default otherwise
Lookup(table, loc) ==
    IF loc \in (DOMAIN table) \ {"default"} THEN table[loc] ELSE table["default"]

\* the origin/destination sum of a table (twice the average)
PairSum(table, a) == Lookup(table, a.origin) + Lookup(table, a.dest)

\* geopolitical, in 1/20
ExactGeo(a) == PairSum(GEO_RISK, a) * (IF IsHit(a) THEN 11 ELSE 10)
\* climate, in 1/20000
ExactClimate(a) ==
    PairSum(CLIMATE_RISK, a) * (IF a.mode = "air" THEN 90 ELSE 100)
                             * (IF InSeason(a) THEN 115 ELSE 100)
\* logistics, in 1/200
ExactLogistics(a) ==
    PairSum(LOGISTICS_RISK, a) *
        (IF a.mode = "sea" THEN 115 ELSE IF a.mode = "air" THEN 90
         ELSE IF a.mode = "road" THEN 110 ELSE 100)
\* cyber, in 1/20
ExactCyber(a) == PairSum(CYBER_RISK, a) * 10

\* the weights in 1/100
ExactWeights(a) ==
    IF a.weighting = "Geo-heavy" THEN <<45, 25, 20, 10>>
    ELSE IF a.weighting = "Climate-heavy" THEN <<25, 45, 20, 10>>
    ELSE IF a.weighting = "Logistics-heavy" THEN <<25, 20, 45, 10>>
    ELSE <<35, 30, 25, 10>>

\* the weighted sum of the unrounded sub-scores plus the bump, in 1/2000000
ExactOverall(a) ==
    LET w == ExactWeights(a)
    IN  ExactGeo(a) * w[1] * 1000 + ExactClimate(a) * w[2] + ExactLogistics(a) * w[3] * 100
        + ExactCyber(a) * w[4] * 1000 + (IF IsHit(a) THEN 10 ELSE 0) * 2000000

\* t tenths is a rounding to one decimal of v / den (den a multiple of 10)
RoundsTo(t, v, den) == Abs(t * (den \div 10) - v) * 2 <= den \div 10

Returned == pc = "returned"
Res == result[1]

\* ------------------------------------------------------------------------
\* C1  Whatever the origin, destination, mode, date, weighting and conflict
\*     flag, the overall score returned by compute_route_risk lies between 0
\*     and 100.
\* ------------------------------------------------------------------------
C1_OverallInRange == Returned => (Res.overall >= 0 /\ Res.overall <= 1000)

\* an unknown origin, an unknown mode and the conflict flag on have been scored
C1_Witness ==
    /\ Returned
    /\ args.origin = "Atlantis" /\ args.dest = "Gaza Strip" /\ args.mode = "drone"
    /\ args.include_conflict
    /\ Res.overall > 0

\* ------------------------------------------------------------------------
\* C2  conflict_bump is 10, the geopolitical sub-score is scaled by 1.1 and 10
\*     is added to overall exactly when include_conflict is true and the
\*     origin is in the conflict set; otherwise the bump is 0 and geopolitical
\*     is the plain average.  The destination never triggers it.
\* ------------------------------------------------------------------------
C2_ConflictBump ==
    Returned =>
        LET hit == args.include_conflict /\
                   args.origin \in {"Ukraine", "Russia", "Israel", "Gaza Strip", "Taiwan"}
            sum == PairSum(GEO_RISK, args)
        IN  /\ Res.conflict_bump = (IF hit THEN 10 ELSE 0)
            /\ RoundsTo(Res.geopolitical, sum * (IF hit THEN 11 ELSE 10), 20)
            /\ ~hit => Res.geopolitical = 5 * sum
            /\ RoundsTo(Res.overall, ExactOverall(args), 2000000)

\* Ukraine -> USA with the flag on got the bump (and USA -> Ukraine, which is
\* also drawn, did not: C2_ConflictBump covers it)
C2_Witness ==
    /\ Returned
    /\ args.origin = "Ukraine" /\ args.dest = "USA" /\ args.include_conflict
    /\ Res.conflict_bump = 10
    /\ Res.geopolitical = 660

\* ------------------------------------------------------------------------
\* C3  The climate sub-score is multiplied by 1.15 exactly when the month of
\*     the departure date is 6, 7, 8 or 9; in the other months it is the
\*     average with the mode adjustment only; geopolitical, logistics and
\*     cyber are the same as for a January date.
\* ------------------------------------------------------------------------
ReferenceDate == Date(2024, 1, 15)

C3_SeasonalClimate ==
    Returned =>
        LET season == args.dep_date.month \in {6, 7, 8, 9}
            base   == PairSum(CLIMATE_RISK, args) * (IF args.mode = "air" THEN 90 ELSE 100)
            ref    == Apply([args EXCEPT !.dep_date = ReferenceDate])
        IN  /\ RoundsTo(Res.climate, base * (IF season THEN 115 ELSE 100), 20000)
            /\ ~season => Res.climate = ref.climate
            /\ Res.geopolitical = ref.geopolitical
            /\ Res.logistics = ref.logistics
            /\ Res.cyber = ref.cyber
            /\ Res.conflict_bump = ref.conflict_bump

\* a September departure got the multiplier: China -> USA by rail, 45 * 1.15
C3_Witness ==
    /\ Returned
    /\ args.origin = "China" /\ args.dest = "USA" /\ args.mode = "rail"
    /\ args.dep_date.month = 9
    /\ Res.climate > 450

\* ------------------------------------------------------------------------
\* C4  compute_route_risk("China", "USA", "sea", 2024-07-15, "Balanced", True)
\*     returns overall 52.1 and conflict_bump 0, from the averaged baselines
\*     geo 45, climate 45, logistics 52.5, cyber 57.5, the season and sea
\*     factors 1.15 and the weights 0.35 / 0.30 / 0.25 / 0.10.
\* ------------------------------------------------------------------------
C4_Args == CallArgs("China", "USA", "sea", Date(2024, 7, 15), "Balanced", TRUE, 0, FALSE)

C4_Example ==
    (Returned /\ args = C4_Args) =>
        /\ Res.overall = 521
        /\ Res.conflict_bump = 0
        /\ Baseline(GEO_RISK, "China", "USA") = FDiv(45, 1)
        /\ Baseline(CLIMATE_RISK, "China", "USA") = FDiv(45, 1)
        /\ Baseline(LOGISTICS_RISK, "China", "USA") = FDiv(525, 10)
        /\ Baseline(CYBER_RISK, "China", "USA") = FDiv(575, 10)
        /\ RoundsTo(Res.climate, 5175, 100)
        /\ RoundsTo(Res.logistics, 60375, 1000)
        /\ Res.geopolitical = 450
        /\ Res.cyber = 575
        /\ Weights("Balanced") = <<FDiv(35, 100), FDiv(30, 100), FDiv(25, 100), FDiv(10, 100)>>
        /\ LiteralsExact

C4_Witness == Returned /\ args = C4_Args /\ Res.overall = 521

\* ------------------------------------------------------------------------
\* C5  compute_route_risk always returns: a location a table does not name
\*     takes that table's default, table by table; a mode outside sea, air,
\*     road, rail gives the result of rail; a weighting outside the four
\*     profiles gives the result of Balanced.
\* ------------------------------------------------------------------------
C5_Total ==
    Returned =>
        /\ IsSet(result)
        /\ RoundsTo(Res.geopolitical, ExactGeo(args), 20)
        /\ RoundsTo(Res.climate, ExactClimate(args), 20000)
        /\ RoundsTo(Res.logistics, ExactLogistics(args), 200)
        /\ RoundsTo(Res.cyber, ExactCyber(args), 20)
        /\ args.mode \notin {"sea", "air", "road", "rail"} =>
               Res = Apply([args EXCEPT !.mode = "rail"])
        /\ args.weighting \notin {"Balanced", "Geo-heavy", "Climate-heavy", "Logistics-heavy"} =>
               Res = Apply([args EXCEPT !.weighting = "Balanced"])

\* "European Union" is named by the cyber table only: its cyber entry 50 and
\* the defaults 35 / 40 / 35 of the other tables were used, with an unknown mode
C5_Witness ==
    /\ Returned
    /\ args.origin = "European Union" /\ args.dest = "European Union"
    /\ args.mode = "drone" /\ args.dep_date.month = 1
    /\ Res.cyber = 500 /\ Res.geopolitical = 350 /\ Res.climate = 400 /\ Res.logistics = 350

\* ------------------------------------------------------------------------
\* C6  Only overall is clamped: each sub-score is the one-decimal rounding of
\*     its adjusted value, with no clamp (geopolitical exceeds 100 for Gaza
\*     Strip -> Ukraine with the flag on), and overall is the rounding of the
\*     weighted sum of the unrounded sub-scores, clamped to [0, 100].
\* ------------------------------------------------------------------------
OverallCap == 100 * 2000000

C6_OnlyOverallClamped ==
    Returned =>
        /\ RoundsTo(Res.geopolitical, ExactGeo(args), 20)
        /\ RoundsTo(Res.climate, ExactClimate(args), 20000)
        /\ RoundsTo(Res.logistics, ExactLogistics(args), 200)
        /\ RoundsTo(Res.cyber, ExactCyber(args), 20)
        /\ IF ExactOverall(args) <= OverallCap
           THEN RoundsTo(Res.overall, ExactOverall(args), 2000000)
           ELSE Res.overall = 1000

\* Gaza Strip -> Ukraine with the flag on: geopolitical 100.1 is reported
C6_Witness ==
    /\ Returned
    /\ args.origin = "Gaza Strip" /\ args.dest = "Ukraine" /\ args.include_conflict
    /\ Res.geopolitical = 1001
    /\ Res.overall <= 1000

\* ------------------------------------------------------------------------
\* Route Analyzer: the "Run analysis" button
\* ------------------------------------------------------------------------
Digits == <<"0", "1", "2", "3", "4", "5", "6", "7", "8", "9">>
Digit(n) == Digits[n + 1]
Pad2(n) == Digit((n \div 10) % 10) \o Digit(n % 10)

\* date.isoformat(): YYYY-MM-DD
isoformat(d) == Pad2(d.year \div 100) \o Pad2(d.year % 100) \o "-" \o Pad2(d.month) \o "-" \o Pad2(d.day)

\* the dict stored in last_route
RouteDict(origin, dest, mode, dep_date, weighting, include_conflict) ==
    [origin |-> origin, dest |-> dest, mode |-> mode, date |-> isoformat(dep_date),
     weighting |-> weighting, conflict |-> include_conflict]

\* {**last_route, "risks": risks}
BasketEntry(r, risks) ==
    [origin |-> r.origin, dest |-> r.dest, mode |-> r.mode, date |-> r.date,
     weighting |-> r.weighting, conflict |-> r.conflict, risks |-> risks]

\* the longest comparison basket explored
MaxBasket == 2

\* StoreRun emptying the scenario slot and the options slot
StoreRun_clearing(r, risks, add_multi) ==
    /\ last_route' = Some(r)
    /\ last_risks' = Some(risks)
    /\ multi_routes' = IF add_multi THEN Append(multi_routes, BasketEntry(r, risks))
                       ELSE multi_routes
    /\ scenario' = None
    /\ optimizer_options' = None

\* StoreRun keeping the assessment stored before
StoreRun_route_only(r, risks, add_multi) ==
    /\ last_route' = Some(r)
    /\ last_risks' = last_risks
    /\ multi_routes' = IF add_multi THEN Append(multi_routes, BasketEntry(r, risks))
                       ELSE multi_routes
    /\ UNCHANGED <<scenario, optimizer_options>>

\* StoreRun with the basket holding the new lane alone
StoreRun_fresh_basket(r, risks, add_multi) ==
    /\ last_route' = Some(r)
    /\ last_risks' = Some(risks)
    /\ multi_routes' = IF add_multi THEN <<BasketEntry(r, risks)>> ELSE multi_routes
    /\ UNCHANGED <<scenario, optimizer_options>>

\* the slots after a run with route dict r and assessment risks
StoreRun(r, risks, add_multi) ==
    /\ last_route' = Some(r)
    /\ last_risks' = Some(risks)
    /\ multi_routes' = IF add_multi THEN Append(multi_routes, BasketEntry(r, risks))
                       ELSE multi_routes
    /\ UNCHANGED <<scenario, optimizer_options>>

\* "Run analysis" with the widget values given; cargo_value and time_critical
\* are read from their widgets and not passed on
RunAnalysis(origin, dest, mode, dep_date, weighting, include_conflict, add_multi) ==
    /\ add_multi => Len(multi_routes) < MaxBasket
    /\ StoreRun(RouteDict(origin, dest, mode, dep_date, weighting, include_conflict),
                compute_route_risk(origin, dest, mode, dep_date, weighting, include_conflict,
                                   0, FALSE),
                add_multi)

\* ------------------------------------------------------------------------
\* SpecRepeat: compute_route_risk called twice with the same six arguments,
\* the clock, the session and the two unused arguments changing in between
\* ------------------------------------------------------------------------
RepeatInputs(a) ==
    \E o \in {"China", "Ukraine"}, m \in {"sea", "air"}, dt \in TwoDates, ic \in BOOLEAN :
       a = CallArgs(o, "USA", m, dt, "Balanced", ic, 0, FALSE)

ClockDates == {Date(2024, 1, 15), Date(2025, 12, 31)}
CargoValues == {0, 250000}

InitRepeat ==
    /\ EmptySession
    /\ today = Date(2024, 1, 15)
    /\ RepeatInputs(args)
    /\ result = None
    /\ result2 = None
    /\ user_prompt = <<>>
    /\ response = None
    /\ pc = "call"

FirstCall ==
    /\ pc = "call"
    /\ result' = Some(Apply(args))
    /\ pc' = "between"
    /\ UNCHANGED <<session, today, args, result2, user_prompt, response>>

\* the calendar date changes
ClockTick ==
    /\ pc = "between"
    /\ \E d \in ClockDates \ {today} : today' = d
    /\ UNCHANGED <<session, args, result, result2, user_prompt, response, pc>>

\* the user runs an analysis of some lane
AnalyzeBetween ==
    /\ pc = "between"
    /\ \E o \in {"India", "Russia"}, add_multi \in BOOLEAN :
          RunAnalysis(o, "Germany", "road", Date(2024, 7, 15), "Balanced", TRUE, add_multi)
    /\ UNCHANGED <<today, args, result, result2, user_prompt, response, pc>>

\* the same six arguments again, with any cargo_value and time_critical
SecondCall ==
    /\ pc = "between"
    /\ \E cv \in CargoValues, tc \in BOOLEAN :
          /\ args' = [args EXCEPT !.cargo_value = cv, !.time_critical = tc]
          /\ result2' = Some(Apply(args'))
    /\ pc' = "again"
    /\ UNCHANGED <<session, today, result, user_prompt, response>>

NextRepeat == FirstCall \/ ClockTick \/ AnalyzeBetween \/ SecondCall

SpecRepeat == InitRepeat /\ [][NextRepeat]_vars

\* ------------------------------------------------------------------------
\* C7  compute_route_risk is deterministic: a second call with the same
\*     origin, destination, mode, date, weighting and conflict flag returns
\*     the result of the first, whatever the session slots and the clock have
\*     become in between and whatever cargo_value and time_critical are.
\* ------------------------------------------------------------------------
C7_Deterministic == pc = "again" => result2 = result

\* a second call made on a later day, after an analysis filled the slots and
\* the basket, with a cargo value and the time-critical flag set
C7_Witness ==
    /\ pc = "again"
    /\ result2 = result
    /\ today = Date(2025, 12, 31)
    /\ IsSet(last_route) /\ Len(multi_routes) > 0
    /\ args.time_critical /\ args.cargo_value > 0

\* ------------------------------------------------------------------------
\* Text: a str is the sequence of its characters
\* ------------------------------------------------------------------------
\* the characters of the texts below in code point order: space, punctuation,
\* the capitals, the small letters
CodeOrder ==
    <<" ", ":", "=", "?", "A", "B", "C", "D", "E", "F", "G", "H", "I", "J", "K", "L", "M", "N", "O", "P", "Q", "R", "S", "T", "U", "V", "W", "X", "Y", "Z",
      "a", "b", "c", "d", "e", "f", "g", "h", "i", "j", "k", "l", "m", "n", "o", "p", "q", "r", "s", "t", "u", "v", "w", "x", "y", "z">>
Code(ch) == CHOOSE i \in 1..Len(CodeOrder) : CodeOrder[i] = ch

\* a < b for two str: at the first difference the smaller code point, a
\* proper prefix before its extensions
RECURSIVE StrLess(_, _)
StrLess(a, b) ==
    IF b = <<>> THEN FALSE
    ELSE IF a = <<>> THEN TRUE
    ELSE IF a[1] = b[1] THEN StrLess(Tail(a), Tail(b))
    ELSE Code(a[1]) < Code(b[1])

\* str.lower() on one character and on a str
LowerOf ==
    ("A" :> "a") @@ ("B" :> "b") @@ ("C" :> "c") @@ ("D" :> "d") @@ ("E" :> "e") @@ ("F" :> "f") @@ ("G" :> "g") @@ ("H" :> "h") @@ ("I" :> "i") @@ ("J" :> "j") @@ ("K" :> "k") @@ ("L" :> "l") @@ ("M" :> "m") @@
    ("N" :> "n") @@ ("O" :> "o") @@ ("P" :> "p") @@ ("Q" :> "q") @@ ("R" :> "r") @@ ("S" :> "s") @@ ("T" :> "t") @@ ("U" :> "u") @@ ("V" :> "v") @@ ("W" :> "w") @@ ("X" :> "x") @@ ("Y" :> "y") @@ ("Z" :> "z")
LowerChar(ch) == IF ch \in DOMAIN LowerOf THEN LowerOf[ch] ELSE ch
lower(text) == [i \in 1..Len(text) |-> LowerChar(text[i])]

\* pat in text
Contains(pat, text) ==
    \E i \in 1..(Len(text) - Len(pat) + 1) : \A j \in 1..Len(pat) : text[i + j - 1] = pat[j]

\* any(w in text for w in words)
AnyIn(words, text) == \E k \in 1..Len(words) : Contains(words[k], text)

\* str.upper() on the mode names
upper(s) ==
    IF s = "sea" THEN "SEA" ELSE IF s = "air" THEN "AIR"
    ELSE IF s = "road" THEN "ROAD" ELSE IF s = "rail" THEN "RAIL" ELSE s

\* ------------------------------------------------------------------------
\* The gazetteer
\* ------------------------------------------------------------------------
\* the keys of COUNTRY_COORDS, in the order of the dict
COUNTRY_COORDS_keys ==
    <<"USA", "China", "India", "Germany", "UK", "Brazil", "South Africa",
      "Australia", "Bangladesh", "Philippines", "Pakistan", "Russia", "Ukraine", "Singapore",
      "Netherlands", "Israel", "Gaza Strip", "Mexico", "Canada", "Japan", "South Korea">>

\* sorted(COUNTRY_COORDS.keys()): the keys in code point order
\* (CountryListSorted states that it is that)
COUNTRY_LIST ==
    <<"Australia", "Bangladesh", "Brazil", "Canada", "China", "Gaza Strip", "Germany",
      "India", "Israel", "Japan", "Mexico", "Netherlands", "Pakistan", "Philippines",
      "Russia", "Singapore", "South Africa", "South Korea", "UK", "USA", "Ukraine">>

\* the characters of each name
Spelling ==
    ("USA" :> <<"U", "S", "A">>) @@
    ("China" :> <<"C", "h", "i", "n", "a">>) @@
    ("India" :> <<"I", "n", "d", "i", "a">>) @@
    ("Germany" :> <<"G", "e", "r", "m", "a", "n", "y">>) @@
    ("UK" :> <<"U", "K">>) @@
    ("Brazil" :> <<"B", "r", "a", "z", "i", "l">>) @@
    ("South Africa" :> <<"S", "o", "u", "t", "h", " ", "A", "f", "r", "i", "c", "a">>) @@
    ("Australia" :> <<"A", "u", "s", "t", "r", "a", "l", "i", "a">>) @@
    ("Bangladesh" :> <<"B", "a", "n", "g", "l", "a", "d", "e", "s", "h">>) @@
    ("Philippines" :> <<"P", "h", "i", "l", "i", "p", "p", "i", "n", "e", "s">>) @@
    ("Pakistan" :> <<"P", "a", "k", "i", "s", "t", "a", "n">>) @@
    ("Russia" :> <<"R", "u", "s", "s", "i", "a">>) @@
    ("Ukraine" :> <<"U", "k", "r", "a", "i", "n", "e">>) @@
    ("Singapore" :> <<"S", "i", "n", "g", "a", "p", "o", "r", "e">>) @@
    ("Netherlands" :> <<"N", "e", "t", "h", "e", "r", "l", "a", "n", "d", "s">>) @@
    ("Israel" :> <<"I", "s", "r", "a", "e", "l">>) @@
    ("Gaza Strip" :> <<"G", "a", "z", "a", " ", "S", "t", "r", "i", "p">>) @@
    ("Mexico" :> <<"M", "e", "x", "i", "c", "o">>) @@
    ("Canada" :> <<"C", "a", "n", "a", "d", "a">>) @@
    ("Japan" :> <<"J", "a", "p", "a", "n">>) @@
    ("South Korea" :> <<"S", "o", "u", "t", "h", " ", "K", "o", "r", "e", "a">>)

CountryListSorted ==
    /\ Len(COUNTRY_LIST) = Len(COUNTRY_COORDS_keys)
    /\ {COUNTRY_LIST[i] : i \in 1..Len(COUNTRY_LIST)} =
       {COUNTRY_COORDS_keys[i] : i \in 1..Len(COUNTRY_COORDS_keys)}
    /\ \A i \in 1..(Len(COUNTRY_LIST) - 1) :
          StrLess(Spelling[COUNTRY_LIST[i]], Spelling[COUNTRY_LIST[i + 1]])

\* ------------------------------------------------------------------------
\* generate_mock_response: the literals it looks for
\* ------------------------------------------------------------------------
kw_route == <<"r", "o", "u", "t", "e", ":">>
kw_scores == <<"s", "c", "o", "r", "e", "s", ":">>
kw_base == <<"b", "a", "s", "e", "=">>
kw_stressed == <<"s", "t", "r", "e", "s", "s", "e", "d", "=">>
kw_compare == <<"c", "o", "m", "p", "a", "r", "e", " ", "t", "h", "e", "s", "e", " ", "r", "o", "u", "t", "e", "s">>
kw_lane == <<"l", "a", "n", "e">>
kw_overall == <<"o", "v", "e", "r", "a", "l", "l">>
kw_options == <<"o", "p", "t", "i", "o", "n", "s", "=">>
kw_advise == <<"a", "d", "v", "i", "s", "e", " ", "b", "e", "s", "t", " ", "c", "h", "o", "i", "c", "e">>
kw_question == <<"?">>
kw_strategy == <<"s", "t", "r", "a", "t", "e", "g", "y">>
kw_plan == <<"p", "l", "a", "n">>

\* the phrases that make the question refer to the current route
route_refs ==
    << <<"t", "h", "i", "s", " ", "r", "o", "u", "t", "e">>,  \* this route
       <<"l", "a", "s", "t", " ", "r", "o", "u", "t", "e">>,  \* last route
       <<"t", "h", "i", "s", " ", "l", "a", "n", "e">>,  \* this lane
       <<"l", "a", "s", "t", " ", "l", "a", "n", "e">>,  \* last lane
       <<"c", "o", "r", "r", "i", "d", "o", "r">> >>  \* corridor

\* safe_words
safe_words ==
    << <<"s", "a", "f", "e">>,  \* safe
       <<"s", "a", "f", "e", "s", "t">>,  \* safest
       <<"l", "o", "w", "e", "r", " ", "r", "i", "s", "k">>,  \* lower risk
       <<"l", "e", "a", "s", "t", " ", "r", "i", "s", "k">>,  \* least risk
       <<"s", "e", "c", "u", "r", "e">> >>  \* secure

\* mode_words
mode_words ==
    << <<"m", "o", "d", "e">>,  \* mode
       <<"a", "i", "r">>,  \* air
       <<"s", "e", "a">>,  \* sea
       <<"o", "c", "e", "a", "n">>,  \* ocean
       <<"s", "h", "i", "p">>,  \* ship
       <<"r", "o", "a", "d">>,  \* road
       <<"t", "r", "u", "c", "k">>,  \* truck
       <<"r", "a", "i", "l">>,  \* rail
       <<"f", "r", "e", "i", "g", "h", "t">> >>  \* freight

\* the word list of the universal rule
best_words ==
    << <<"s", "a", "f", "e", "s", "t">>,  \* safest
       <<"c", "h", "e", "a", "p">>,  \* cheap
       <<"c", "h", "e", "a", "p", "e", "s", "t">>,  \* cheapest
       <<"b", "e", "s", "t", " ", "r", "o", "u", "t", "e">>,  \* best route
       <<"o", "p", "t", "i", "m", "a", "l", " ", "r", "o", "u", "t", "e">> >>  \* optimal route

\* non_domain_keywords
non_domain_keywords ==
    << <<"w", "o", "r", "l", "d", " ", "c", "u", "p">>,  \* world cup
       <<"c", "r", "i", "c", "k", "e", "t">>,  \* cricket
       <<"f", "o", "o", "t", "b", "a", "l", "l">>,  \* football
       <<"s", "o", "c", "c", "e", "r">>,  \* soccer
       <<"w", "h", "o", " ", "w", "o", "n">>,  \* who won
       <<"n", "b", "a">>,  \* nba
       <<"m", "o", "v", "i", "e">>,  \* movie
       <<"a", "c", "t", "o", "r">>,  \* actor
       <<"s", "i", "n", "g", "e", "r">>,  \* singer
       <<"m", "u", "s", "i", "c">>,  \* music
       <<"p", "r", "e", "s", "i", "d", "e", "n", "t">> >>  \* president

\* the phrases that bring the current lane into a strategy answer
focus_refs ==
    << <<"t", "h", "i", "s", " ", "r", "o", "u", "t", "e">>,  \* this route
       <<"l", "a", "s", "t", " ", "r", "o", "u", "t", "e">>,  \* last route
       <<"t", "h", "i", "s", " ", "l", "a", "n", "e">>,  \* this lane
       <<"l", "a", "s", "t", " ", "l", "a", "n", "e">>,  \* last lane
       <<"c", "u", "r", "r", "e", "n", "t", " ", "l", "a", "n", "e">> >>  \* current lane

\* ------------------------------------------------------------------------
\* generate_mock_response
\* ------------------------------------------------------------------------
\* A response is held by its parts: the intent whose header opens the text,
\* the values interpolated into the text, and the context block appended to
\* it.  Fixed text is not represented.
BlankResponse ==
    [intent |-> "", origin |-> None, dest |-> None, lane |-> None, drivers |-> <<>>,
     note |-> None, ranking |-> <<>>, recommended |-> None, cheapest |-> None,
     focus |-> None, context |-> None]

\* "route and risks"
HasLane == IsSet(last_route) /\ IsSet(last_risks)

\* "{origin} -> {dest} via {MODE} (overall risk {overall}/100)"
LaneText(route, risks) ==
    [origin |-> route.origin, dest |-> route.dest, mode |-> upper(route.mode),
     overall |-> risks.overall]

\* context_block: its three optional paragraphs
context_block ==
    [lane     |-> IF HasLane THEN Some(LaneText(last_route[1], last_risks[1])) ELSE None,
     scenario |-> scenario,
     options  |-> IF IsSet(optimizer_options) /\ Len(optimizer_options[1]) > 0
                  THEN Some(Len(optimizer_options[1])) ELSE None]

\* "if context_block: lines.append(context_block)"
Footer(block) ==
    IF block.lane = None /\ block.scenario = None /\ block.options = None THEN None
    ELSE Some(block)

\* list(dict.fromkeys(found)): the first occurrence of each element, in order
RECURSIVE unique(_)
unique(found) ==
    IF found = <<>> THEN <<>>
    ELSE <<found[1]>> \o unique(SelectSeq(Tail(found), LAMBDA c : c # found[1]))

\* the names of COUNTRY_LIST that occur in the lowered text t, in list order
FoundIn(t) == SelectSeq(COUNTRY_LIST, LAMBDA c : Contains(lower(Spelling[c]), t))

detect_countries(text) == unique(FoundIn(lower(text)))

\* origin and dest as the question gives them: <<origin, dest>>, or <<>> when
\* both stay None
ExtractLane(countries_mentioned, lowered) ==
    IF Len(countries_mentioned) >= 2 THEN <<countries_mentioned[1], countries_mentioned[2]>>
    ELSE IF IsSet(last_route) /\ AnyIn(route_refs, lowered)
         THEN <<last_route[1].origin, last_route[1].dest>>
         ELSE <<>>

\* "origin and dest"
HasPair(od) == Len(od) = 2

\* s with x put after the elements of key at most x.key (s ascending by key)
InsertByKey(s, x) ==
    SubSeq(s, 1, Cardinality({i \in 1..Len(s) : s[i].key <= x.key})) \o <<x>> \o
    SubSeq(s, Cardinality({i \in 1..Len(s) : s[i].key <= x.key}) + 1, Len(s))

\* SortByKey leaving the list in the order given
SortByKey_unsorted(s) == s

\* list.sort(key) and sorted(key): ascending by key, equal keys in their order
RECURSIVE SortByKey(_)
SortByKey(s) ==
    IF s = <<>> THEN <<>>
    ELSE InsertByKey(SortByKey(SubSeq(s, 1, Len(s) - 1)), s[Len(s)])

\* describe_dominant_risks: the three largest dimensions, largest first
\* Dim sorting the smallest value first
Dim_ascending(name, val) == [name |-> name, val |-> val, key |-> val]

Dim(name, val) == [name |-> name, val |-> val, key |-> 0 - val]

\* the phrase chosen by the if / elif chain on the name
Driver(name) ==
    IF name = "Geopolitics" THEN "geopolitical tensions, regulatory shifts or sanctions exposure"
    ELSE IF name = "Climate" THEN "weather volatility, storms, flooding and seasonal disruption"
    ELSE IF name = "Logistics"
    THEN "port congestion, infrastructure bottlenecks and capacity constraints"
    ELSE "data security, ransomware and technology dependencies"

DimLine(x) == [name |-> x.name, val |-> x.val, driver |-> Driver(x.name)]
TopThree(sorted) == <<DimLine(sorted[1]), DimLine(sorted[2]), DimLine(sorted[3])>>
describe_dominant_risks(r) ==
    TopThree(SortByKey(<<Dim("Geopolitics", r.geopolitical), Dim("Climate", r.climate),
                         Dim("Logistics", r.logistics), Dim("Cyber", r.cyber)>>))

\* risk_level with each threshold in the lower band
risk_level_inclusive(s) ==
    IF s <= 250 THEN "Low" ELSE IF s <= 500 THEN "Moderate" ELSE IF s <= 750 THEN "High"
    ELSE "Critical"

\* risk_level on a score in tenths
risk_level(s) ==
    IF s < 250 THEN "Low" ELSE IF s < 500 THEN "Moderate" ELSE IF s < 750 THEN "High"
    ELSE "Critical"

ModeList == <<"sea", "air", "road", "rail">>

\* (m, r_model["overall"], r_model)
ModeResult(m, r_model) == [mode |-> m, score |-> r_model.overall, risks |-> r_model, key |-> r_model.overall]

\* the four modes scored for today with the Balanced weights and the flag on
mode_results(origin, dest) ==
    [i \in 1..Len(ModeList) |->
        ModeResult(ModeList[i],
                   compute_route_risk(origin, dest, ModeList[i], today, "Balanced", TRUE, 0, FALSE))]

\* "- **MODE** -> overall risk **score/100** (Geo .., Climate .., Logistics .., Cyber ..)"
RankLine(x) ==
    [mode |-> upper(x.mode), overall |-> x.score, geopolitical |-> x.risks.geopolitical,
     climate |-> x.risks.climate, logistics |-> x.risks.logistics, cyber |-> x.risks.cyber]

\* cost_order and min(modes, key=cost_order): the first mode of least cost
cost_order_air_first == ("air" :> 1) @@ ("sea" :> 2) @@ ("rail" :> 3) @@ ("road" :> 4)
cost_order == ("sea" :> 1) @@ ("rail" :> 2) @@ ("road" :> 3) @@ ("air" :> 4)
CostEntry(m) == [mode |-> m, key |-> cost_order[m]]
cheapest_mode == Head(SortByKey([i \in 1..Len(ModeList) |-> CostEntry(ModeList[i])])).mode

\* 1) "Lane Intelligence": the lane, the scores with the band, the drivers,
\*    the note of the mode, the playbook
ExplainRoute(route, risks, block) ==
    [BlankResponse EXCEPT
        !.intent = "ExplainRoute",
        !.lane = Some([origin |-> route.origin, dest |-> route.dest, mode |-> upper(route.mode),
                       overall |-> risks.overall, band |-> risk_level(risks.overall),
                       geopolitical |-> risks.geopolitical, climate |-> risks.climate,
                       logistics |-> risks.logistics, cyber |-> risks.cyber]),
        !.drivers = describe_dominant_risks(risks),
        !.note = IF route.mode \in {"sea", "air", "road", "rail"} THEN Some(route.mode) ELSE None,
        !.context = Footer(block)]

\* 2) "Safety-Focused Mode Comparison": the ranking, the recommended mode with
\*    its reasons, the playbook
SafestRanked(origin, dest, ranked, block) ==
    [BlankResponse EXCEPT
        !.intent = "SafestModeComparison",
        !.origin = Some(origin), !.dest = Some(dest),
        !.ranking = [i \in 1..Len(ranked) |-> RankLine(ranked[i])],
        !.recommended = Some([mode |-> upper(ranked[1].mode), overall |-> ranked[1].score,
                              reasons |-> ranked[1].mode]),
        !.context = Footer(block)]
SafestModeComparison(origin, dest, block) ==
    SafestRanked(origin, dest, SortByKey(mode_results(origin, dest)), block)

\* 3) "Scenario Lab - Stress Test Interpretation"
ScenarioExplanation(block) ==
    [BlankResponse EXCEPT !.intent = "ScenarioExplanation", !.context = Footer(block)]

\* 4) "Multi-Route Comparison & Recommendation"
RouteComparison(block) ==
    [BlankResponse EXCEPT !.intent = "RouteComparison", !.context = Footer(block)]

\* 5) "Network Optimizer - Recommended Configuration"
NetworkOptimizerAdvice(block) ==
    [BlankResponse EXCEPT !.intent = "NetworkOptimizerAdvice", !.context = Footer(block)]

\* 6) "Route Assessment": the safest mode, the cheapest mode, the trade-offs
BestRanked(origin, dest, safest, block) ==
    [BlankResponse EXCEPT
        !.intent = "UniversalBestRoute",
        !.origin = Some(origin), !.dest = Some(dest),
        !.recommended = Some([mode |-> upper(safest.mode), overall |-> safest.score,
                              reasons |-> ""]),
        !.cheapest = Some(upper(cheapest_mode)),
        !.context = Footer(block)]
UniversalBestRoute(origin, dest, block) ==
    BestRanked(origin, dest, Head(SortByKey(mode_results(origin, dest))), block)

\* OutOfDomain with the context block under its text
OutOfDomain_with_footer ==
    [BlankResponse EXCEPT !.intent = "OutOfDomain", !.context = Footer(context_block)]

\* 7) "General Knowledge Note": one fixed text
OutOfDomain == [BlankResponse EXCEPT !.intent = "OutOfDomain"]

\* 8) "Strategic Advisory Response": the framing with the two countries when
\*    there are two, the current lane when the question refers to one
GeneralStrategy(od, lowered, block) ==
    [BlankResponse EXCEPT
        !.intent = "GeneralStrategy",
        !.origin = IF HasPair(od) THEN Some(od[1]) ELSE None,
        !.dest = IF HasPair(od) THEN Some(od[2]) ELSE None,
        !.focus = IF HasLane /\ AnyIn(focus_refs, lowered)
                  THEN Some(LaneText(last_route[1], last_risks[1])) ELSE None,
        !.context = Footer(block)]

\* 9) "GeoClimate AI Command Center Analysis": one fixed text
DefaultExecutiveSummary == [BlankResponse EXCEPT !.intent = "DefaultExecutiveSummary"]

\* the conditions of the nine rules
ExplainRouteTrigger(lowered) ==
    (Contains(kw_route, lowered) /\ Contains(kw_scores, lowered)) /\ HasLane
is_safety_question(lowered) == AnyIn(safe_words, lowered) /\ AnyIn(mode_words, lowered)
SafestModeTrigger(lowered, od) == is_safety_question(lowered) /\ HasPair(od)
ScenarioTrigger(lowered) == Contains(kw_base, lowered) /\ Contains(kw_stressed, lowered)
RouteComparisonTrigger(lowered) ==
    Contains(kw_compare, lowered) \/ (Contains(kw_lane, lowered) /\ Contains(kw_overall, lowered))
NetworkOptimizerTrigger(lowered) == Contains(kw_options, lowered) /\ Contains(kw_advise, lowered)
UniversalTrigger(lowered, od) == AnyIn(best_words, lowered) /\ HasPair(od)
OutOfDomainTrigger(lowered) == AnyIn(non_domain_keywords, lowered)
GeneralStrategyTrigger(prompt, lowered) ==
    Contains(kw_question, prompt) \/ Contains(kw_strategy, lowered) \/ Contains(kw_plan, lowered)

\* Respond with the out-of-domain rule tried first
Respond_ood_first(prompt, lowered, od, block) ==
    IF OutOfDomainTrigger(lowered) THEN OutOfDomain
    ELSE IF ExplainRouteTrigger(lowered) THEN ExplainRoute(last_route[1], last_risks[1], block)
    ELSE IF SafestModeTrigger(lowered, od) THEN SafestModeComparison(od[1], od[2], block)
    ELSE IF ScenarioTrigger(lowered) THEN ScenarioExplanation(block)
    ELSE IF RouteComparisonTrigger(lowered) THEN RouteComparison(block)
    ELSE IF NetworkOptimizerTrigger(lowered) THEN NetworkOptimizerAdvice(block)
    ELSE IF UniversalTrigger(lowered, od) THEN UniversalBestRoute(od[1], od[2], block)
    ELSE IF GeneralStrategyTrigger(prompt, lowered) THEN GeneralStrategy(od, lowered, block)
    ELSE DefaultExecutiveSummary

\* Respond with the universal rule tried before the scenario rule
Respond_universal_early(prompt, lowered, od, block) ==
    IF ExplainRouteTrigger(lowered) THEN ExplainRoute(last_route[1], last_risks[1], block)
    ELSE IF SafestModeTrigger(lowered, od) THEN SafestModeComparison(od[1], od[2], block)
    ELSE IF UniversalTrigger(lowered, od) THEN UniversalBestRoute(od[1], od[2], block)
    ELSE IF ScenarioTrigger(lowered) THEN ScenarioExplanation(block)
    ELSE IF RouteComparisonTrigger(lowered) THEN RouteComparison(block)
    ELSE IF NetworkOptimizerTrigger(lowered) THEN NetworkOptimizerAdvice(block)
    ELSE IF OutOfDomainTrigger(lowered) THEN OutOfDomain
    ELSE IF GeneralStrategyTrigger(prompt, lowered) THEN GeneralStrategy(od, lowered, block)
    ELSE DefaultExecutiveSummary

\* the rules in the order of the code: the first whose condition holds returns
Respond(prompt, lowered, od, block) ==
    IF ExplainRouteTrigger(lowered) THEN ExplainRoute(last_route[1], last_risks[1], block)
    ELSE IF SafestModeTrigger(lowered, od) THEN SafestModeComparison(od[1], od[2], block)
    ELSE IF ScenarioTrigger(lowered) THEN ScenarioExplanation(block)
    ELSE IF RouteComparisonTrigger(lowered) THEN RouteComparison(block)
    ELSE IF NetworkOptimizerTrigger(lowered) THEN NetworkOptimizerAdvice(block)
    ELSE IF UniversalTrigger(lowered, od) THEN UniversalBestRoute(od[1], od[2], block)
    ELSE IF OutOfDomainTrigger(lowered) THEN OutOfDomain
    ELSE IF GeneralStrategyTrigger(prompt, lowered) THEN GeneralStrategy(od, lowered, block)
    ELSE DefaultExecutiveSummary

Classified(prompt, lowered) ==
    Respond(prompt, lowered, ExtractLane(detect_countries(prompt), lowered), context_block)

\* generate_mock_response answering only the strategist's system prompt
generate_mock_response_strategist(system_prompt, prompt) ==
    IF system_prompt = "You are a strategist." THEN Classified(prompt, lower(prompt))
    ELSE DefaultExecutiveSummary

generate_mock_response(system_prompt, prompt) == Classified(prompt, lower(prompt))

\* the mock ignores system_prompt and temperature
ai_call(system_prompt, prompt, temperature) == generate_mock_response(system_prompt, prompt)

\* ------------------------------------------------------------------------
\* SpecRespond: ai_call on a prompt, before or after lanes were analysed
\* ------------------------------------------------------------------------
\* what a prompt may open and close with: the wording of each rule, whole or in part
Phrases ==
    { <<>>,  \* (nothing)
      <<"R", "o", "u", "t", "e", ":", " ", "S", "c", "o", "r", "e", "s", ":">>,  \* Route: Scores:
      <<"R", "o", "u", "t", "e", ":", " ", "S", "c", "o", "r", "e", "s", ":", " ", "c", "r", "i", "c", "k", "e", "t">>,  \* Route: Scores: cricket
      <<"R", "o", "u", "t", "e", ":">>,  \* Route:
      <<"s", "a", "f", "e", "s", "t", " ", "m", "o", "d", "e">>,  \* safest mode
      <<"s", "e", "c", "u", "r", "e">>,  \* secure
      <<"B", "a", "s", "e", "=", " ", "S", "t", "r", "e", "s", "s", "e", "d", "=">>,  \* Base= Stressed=
      <<"C", "o", "m", "p", "a", "r", "e", " ", "t", "h", "e", "s", "e", " ", "r", "o", "u", "t", "e", "s">>,  \* Compare these routes
      <<"l", "a", "n", "e", " ", "o", "v", "e", "r", "a", "l", "l">>,  \* lane overall
      <<"O", "p", "t", "i", "o", "n", "s", "=", " ", "A", "d", "v", "i", "s", "e", " ", "b", "e", "s", "t", " ", "c", "h", "o", "i", "c", "e">>,  \* Options= Advise best choice
      <<"c", "h", "e", "a", "p", "e", "s", "t">>,  \* cheapest
      <<"c", "r", "i", "c", "k", "e", "t">>,  \* cricket
      <<"s", "t", "r", "a", "t", "e", "g", "y">>,  \* strategy
      <<"w", "h", "a", "t", " ", "n", "o", "w", "?">> }  \* what now?

\* what a prompt may name in between
Places ==
    { <<>>,  \* (nothing)
      <<"U", "S", "A", " ", "t", "o", " ", "C", "h", "i", "n", "a">>,  \* USA to China
      <<"C", "h", "i", "n", "a", " ", "t", "o", " ", "U", "S", "A">>,  \* China to USA
      <<"U", "k", "r", "a", "i", "n", "e">>,  \* Ukraine
      <<"I", "n", "d", "i", "a">>,  \* India
      <<"t", "h", "i", "s", " ", "r", "o", "u", "t", "e">> }  \* this route

\* two parts with a space between them, or the one that is not empty
JoinTwo(a, b) == IF a = <<>> THEN b ELSE IF b = <<>> THEN a ELSE a \o <<" ">> \o b

\* the prompts drawn: a phrase, a place, a phrase
Prompts(p) == \E h \in Phrases, pl \in Places, t \in Phrases : p = JoinTwo(JoinTwo(h, pl), t)

SystemPrompts == {"You are a strategist.", "You are a supply chain advisor."}

InitRespond ==
    /\ EmptySession
    /\ today = Date(2024, 7, 15)
    /\ args = <<>>
    /\ result = None
    /\ result2 = None
    /\ Prompts(user_prompt)
    /\ response = None
    /\ pc = "idle"

\* the user analyses a lane
AnalyzeLane ==
    /\ pc = "idle"
    /\ \/ RunAnalysis("China", "USA", "sea", Date(2024, 7, 15), "Balanced", TRUE, FALSE)
       \/ RunAnalysis("Ukraine", "Germany", "air", Date(2024, 1, 15), "Geo-heavy", TRUE, FALSE)
    /\ UNCHANGED <<today, args, result, result2, user_prompt, response, pc>>

\* ai_call(system_prompt, user_prompt) with the default temperature 0.4
AiCall ==
    /\ pc = "idle"
    /\ \E system_prompt \in SystemPrompts : response' = Some(ai_call(system_prompt, user_prompt, 4))
    /\ pc' = "answered"
    /\ UNCHANGED <<session, today, args, result, result2, user_prompt>>

NextRespond == AnalyzeLane \/ AiCall

SpecRespond == InitRespond /\ [][NextRespond]_vars

Answered == pc = "answered"
Resp == response[1]
Lowered == lower(user_prompt)

\* ------------------------------------------------------------------------
\* C8  generate_mock_response selects exactly one intent: the first, in the
\*     order ExplainRoute, SafestModeComparison, ScenarioExplanation,
\*     RouteComparison, NetworkOptimizerAdvice, UniversalBestRoute,
\*     OutOfDomain, GeneralStrategy, DefaultExecutiveSummary, whose trigger
\*     holds; DefaultExecutiveSummary exactly when no trigger holds.
\* ------------------------------------------------------------------------
IntentOrder ==
    <<"ExplainRoute", "SafestModeComparison", "ScenarioExplanation", "RouteComparison",
      "NetworkOptimizerAdvice", "UniversalBestRoute", "OutOfDomain", "GeneralStrategy",
      "DefaultExecutiveSummary">>

\* whether each trigger holds for the prompt and the session, in that order
\* (the last intent has none)
TriggersOf(lowered, od) ==
    <<ExplainRouteTrigger(lowered), SafestModeTrigger(lowered, od), ScenarioTrigger(lowered),
      RouteComparisonTrigger(lowered), NetworkOptimizerTrigger(lowered),
      UniversalTrigger(lowered, od), OutOfDomainTrigger(lowered),
      GeneralStrategyTrigger(user_prompt, lowered), TRUE>>
Triggers == TriggersOf(Lowered, ExtractLane(detect_countries(user_prompt), Lowered))

FirstMatchWins(holds, intent) ==
    /\ \E i \in 1..Len(IntentOrder) :
          /\ intent = IntentOrder[i]
          /\ holds[i]
          /\ \A j \in 1..(i - 1) : ~holds[j]
    /\ intent = "DefaultExecutiveSummary" <=> \A j \in 1..(Len(IntentOrder) - 1) : ~holds[j]

C8_FirstMatchWins == Answered => FirstMatchWins(Triggers, Resp.intent)

\* a prompt that triggers the safest-mode, the universal and the out-of-domain
\* rules ("safest mode USA to China cricket") was answered as a mode comparison
C8_Witness ==
    /\ Answered
    /\ Triggers[2] /\ Triggers[6] /\ Triggers[7]
    /\ ~Triggers[1]
    /\ Resp.intent = "SafestModeComparison"

\* ------------------------------------------------------------------------
\* C9  A prompt with "route:", "scores:" and an out-of-domain keyword is
\*     answered as ExplainRoute when a current route and assessment exist;
\*     without them it is answered by the later rules in order: by the first
\*     of the rules 2 to 6 that matches, and as OutOfDomain when none does.
\* ------------------------------------------------------------------------
C9_Case ==
    /\ Contains(kw_route, Lowered) /\ Contains(kw_scores, Lowered)
    /\ AnyIn(non_domain_keywords, Lowered)

C9_FallThrough(holds, intent) ==
    /\ intent # "ExplainRoute"
    /\ IF \E i \in 2..6 : holds[i]
       THEN \E i \in 2..6 : intent = IntentOrder[i] /\ holds[i] /\ \A j \in 2..(i - 1) : ~holds[j]
       ELSE intent = "OutOfDomain"

C9_ExplainRouteNeedsLane ==
    (Answered /\ C9_Case) =>
        IF IsSet(last_route) /\ IsSet(last_risks)
        THEN Resp.intent = "ExplainRoute" /\ Resp.lane # None
        ELSE C9_FallThrough(Triggers, Resp.intent)

\* with China -> USA analysed, the prompt that also names cricket got the
\* explanation of that lane
C9_Witness ==
    /\ Answered /\ C9_Case
    /\ IsSet(last_route) /\ last_route[1].origin = "China"
    /\ Resp.intent = "ExplainRoute"
    /\ Resp.lane[1].dest = "USA"

\* ------------------------------------------------------------------------
\* C10 The locations extracted from a prompt come in the order of their first
\*     occurrence in the prompt: when two or more are named, the origin is the
\*     one named first and the destination the one named next.
\* ------------------------------------------------------------------------
\* the known names that occur in the prompt
Mentioned == {c \in DOMAIN Spelling : Contains(lower(Spelling[c]), Lowered)}

MatchAt(pat, text, i) ==
    /\ i + Len(pat) - 1 <= Len(text)
    /\ \A j \in 1..Len(pat) : text[i + j - 1] = pat[j]

\* where the name c first occurs in the prompt
FirstAt(c) ==
    CHOOSE i \in 1..Len(Lowered) :
        /\ MatchAt(lower(Spelling[c]), Lowered, i)
        /\ \A k \in 1..(i - 1) : ~MatchAt(lower(Spelling[c]), Lowered, k)

C10_FirstOccurrenceOrder ==
    (Answered /\ Cardinality(Mentioned) >= 2 /\ IsSet(Resp.origin)) =>
        /\ Resp.origin[1] \in Mentioned
        /\ Resp.dest[1] \in Mentioned \ {Resp.origin[1]}
        /\ \A c \in Mentioned : FirstAt(Resp.origin[1]) <= FirstAt(c)
        /\ \A c \in Mentioned \ {Resp.origin[1]} : FirstAt(Resp.dest[1]) <= FirstAt(c)

\* "cheapest USA to China" was answered for the lane China -> USA: the names
\* come in the order of COUNTRY_LIST, which is sorted
C10_Witness ==
    /\ Answered
    /\ user_prompt = <<"c", "h", "e", "a", "p", "e", "s", "t", " ", "U", "S", "A", " ", "t", "o", " ", "C", "h", "i", "n", "a">>
    /\ Resp.intent = "UniversalBestRoute"
    /\ Resp.origin = Some("China") /\ Resp.dest = Some("USA")
    /\ CountryListSorted

\* ------------------------------------------------------------------------
\* SpecAsk: ai_call on a prompt, then again on the same prompt with the same
\* session, the clock and the system prompt changing in between
\* ------------------------------------------------------------------------
AskOpeners ==
    { <<>>,
      <<"s", "a", "f", "e", "s", "t", " ", "m", "o", "d", "e">>,
      <<"c", "h", "e", "a", "p", "e", "s", "t">>,
      <<"b", "e", "s", "t", " ", "r", "o", "u", "t", "e">>,
      <<"s", "t", "r", "a", "t", "e", "g", "y">> }

AskPlaces ==
    { <<>>,
      <<"U", "S", "A", " ", "t", "o", " ", "C", "h", "i", "n", "a">>,
      <<"U", "k", "r", "a", "i", "n", "e">> }

AskRefs ==
    { <<>>,
      <<"t", "h", "i", "s", " ", "r", "o", "u", "t", "e">>,
      <<"l", "a", "s", "t", " ", "r", "o", "u", "t", "e">>,
      <<"c", "u", "r", "r", "e", "n", "t", " ", "r", "o", "u", "t", "e">>,
      <<"t", "h", "i", "s", " ", "l", "a", "n", "e">>,
      <<"l", "a", "s", "t", " ", "l", "a", "n", "e">>,
      <<"c", "u", "r", "r", "e", "n", "t", " ", "l", "a", "n", "e">>,
      <<"c", "o", "r", "r", "i", "d", "o", "r">> }

\* the prompts drawn: an opener, a place, a reference to the lane in the tool
AskPrompts(p) ==
    \E h \in AskOpeners, pl \in AskPlaces, t \in AskRefs : p = JoinTwo(JoinTwo(h, pl), t)

\* the arguments of a call of ai_call and the date at which it is made
AskArgs(system_prompt, temperature, day) ==
    [system_prompt |-> system_prompt, temperature |-> temperature, today |-> day]

\* a call of ai_call with its result
AskRecord(a, answer) ==
    [system_prompt |-> a.system_prompt, temperature |-> a.temperature, today |-> a.today,
     response |-> answer]

InitAsk ==
    /\ EmptySession
    /\ today = Date(2024, 1, 15)
    /\ args = <<>>
    /\ result = None
    /\ result2 = None
    /\ AskPrompts(user_prompt)
    /\ response = None
    /\ pc = "idle"

\* the user analyses a lane before asking
AskAnalyze ==
    /\ pc = "idle"
    /\ \/ RunAnalysis("China", "USA", "sea", Date(2024, 7, 15), "Geo-heavy", TRUE, FALSE)
       \/ /\ multi_routes = <<>>
          /\ RunAnalysis("Ukraine", "Germany", "air", Date(2024, 1, 15), "Balanced", TRUE, TRUE)
    /\ UNCHANGED <<today, args, result, result2, user_prompt, response, pc>>

\* the calendar date changes between winter and summer
AskClock ==
    /\ pc \in {"idle", "answered"}
    /\ \E d \in TwoDates \ {today} : today' = d
    /\ UNCHANGED <<session, args, result, result2, user_prompt, response, pc>>

\* AskFirst with a call that keeps its ranking in the options slot
AskFirst_storing ==
    /\ pc = "idle"
    /\ args' = AskArgs("You are a strategist.", 4, today)
    /\ response' = Some(ai_call("You are a strategist.", user_prompt, 4))
    /\ optimizer_options' = Some(response'[1].ranking)
    /\ pc' = "answered"
    /\ UNCHANGED <<last_route, last_risks, scenario, multi_routes, today, result, result2, user_prompt>>

\* answer = ai_call("You are a strategist.", question), temperature 0.4 by default
AskFirst ==
    /\ pc = "idle"
    /\ args' = AskArgs("You are a strategist.", 4, today)
    /\ response' = Some(ai_call("You are a strategist.", user_prompt, 4))
    /\ pc' = "answered"
    /\ UNCHANGED <<session, today, result, result2, user_prompt>>

\* the same user prompt again, with any system prompt and temperature
AskAgain ==
    /\ pc = "answered"
    /\ \E system_prompt \in SystemPrompts, temperature \in {4, 10} :
          result2' = Some(AskRecord(AskArgs(system_prompt, temperature, today),
                                    ai_call(system_prompt, user_prompt, temperature)))
    /\ pc' = "again"
    /\ UNCHANGED <<session, today, args, result, user_prompt, response>>

NextAsk == AskAnalyze \/ AskClock \/ AskFirst \/ AskAgain

SpecAsk == InitAsk /\ [][NextAsk]_vars

Asked == pc \in {"answered", "again"}
Again == pc = "again"
Second == result2[1]

FirstAnswer == response[1]

\* ------------------------------------------------------------------------
\* C11 SafestModeComparison scores the extracted origin and destination once
\*     for each of sea, air, road, rail with the Balanced weights and the
\*     conflict flag on, lists the four modes by non-decreasing overall, ties
\*     in the order sea, air, road, rail, and recommends the first of the
\*     list; a repeated call on the same date gives the same ranking.
\* ------------------------------------------------------------------------
\* the position of a mode, as the ranking prints it, in sea, air, road, rail
EnumIndex(printed) == CHOOSE i \in 1..Len(ModeList) : upper(ModeList[i]) = printed

\* the assessment C11 expects behind a line of the ranking
C11_Score(line) ==
    compute_route_risk(FirstAnswer.origin[1], FirstAnswer.dest[1],
                       ModeList[EnumIndex(line.mode)], args.today, "Balanced", TRUE, 0, FALSE)

C11_LineOf(line, r) ==
    /\ line.overall = r.overall
    /\ line.geopolitical = r.geopolitical /\ line.climate = r.climate
    /\ line.logistics = r.logistics /\ line.cyber = r.cyber

C11_Ranked(rk, recommended) ==
    /\ Len(rk) = 4
    /\ {rk[i].mode : i \in 1..Len(rk)} = {"SEA", "AIR", "ROAD", "RAIL"}
    /\ \A i \in 1..Len(rk) : C11_LineOf(rk[i], C11_Score(rk[i]))
    /\ \A i \in 1..Len(rk) : \A j \in (i + 1)..Len(rk) :
          \/ rk[i].overall < rk[j].overall
          \/ rk[i].overall = rk[j].overall /\ EnumIndex(rk[i].mode) < EnumIndex(rk[j].mode)
    /\ recommended.mode = rk[1].mode
    /\ recommended.overall = rk[1].overall

C11_SafestRanking ==
    (Asked /\ FirstAnswer.intent = "SafestModeComparison") =>
        /\ C11_Ranked(FirstAnswer.ranking, FirstAnswer.recommended[1])
        /\ (Again /\ Second.today = args.today) =>
               /\ Second.response.ranking = FirstAnswer.ranking
               /\ Second.response.recommended = FirstAnswer.recommended

\* "safest mode USA to China" asked twice on the same day, with a lane in the
\* tool and another system prompt the second time: AIR leads both rankings
C11_Witness ==
    /\ Again
    /\ FirstAnswer.intent = "SafestModeComparison"
    /\ FirstAnswer.origin = Some("China") /\ FirstAnswer.dest = Some("USA")
    /\ Second.today = args.today /\ Second.system_prompt # args.system_prompt
    /\ IsSet(last_route)
    /\ FirstAnswer.ranking[1].mode = "AIR" /\ FirstAnswer.ranking[4].mode = "SEA"
    /\ Second.response.ranking = FirstAnswer.ranking

\* ------------------------------------------------------------------------
\* C12 Two calls with the same prompt and the same route, assessment,
\*     scenario and options return the same response, whatever else differs
\*     between them, the calendar date at call time included.
\* ------------------------------------------------------------------------
C12_DeterminedByPromptAndContext == Again => Second.response = FirstAnswer

\* "safest mode USA to China" asked in January and again in July with nothing
\* else changed: the climate scores, and with them the ranking, differ
C12_Witness ==
    /\ Again
    /\ FirstAnswer.intent = "SafestModeComparison"
    /\ args.today = Date(2024, 1, 15) /\ Second.today = Date(2024, 7, 15)
    /\ Second.system_prompt = args.system_prompt /\ Second.temperature = args.temperature
    /\ Second.response.ranking # FirstAnswer.ranking

\* ------------------------------------------------------------------------
\* C13 No call of ai_call changes the route, assessment, scenario, options
\*     or basket slot, whatever the prompt and the intent, the calls that
\*     score the four modes included.
\* ------------------------------------------------------------------------
\* the steps that are a call of ai_call: the ones that return an answer
IsCall == response' # response \/ result2' # result2

C13_ReadOnly == [][IsCall => session' = session]_vars

\* a mode comparison answered while a lane, its assessment and a basket entry
\* were in the session
C13_Witness ==
    /\ Again
    /\ FirstAnswer.intent = "SafestModeComparison"
    /\ Len(FirstAnswer.ranking) = 4
    /\ IsSet(last_route) /\ IsSet(last_risks) /\ Len(multi_routes) = 1

\* ------------------------------------------------------------------------
\* C14 For the same user prompt and context, ai_call returns the same
\*     response for any two system prompts and any two temperatures.
\* ------------------------------------------------------------------------
C14_SystemPromptIgnored ==
    (Again /\ Second.today = args.today) => Second.response = FirstAnswer

\* the second call with another system prompt and another temperature
C14_Witness ==
    /\ Again
    /\ Second.today = args.today
    /\ Second.system_prompt # args.system_prompt
    /\ Second.temperature # args.temperature
    /\ Second.response = FirstAnswer
    /\ FirstAnswer.intent = "GeneralStrategy"

\* ------------------------------------------------------------------------
\* C15 In UniversalBestRoute the cheapest mode reported is sea, the mode of
\*     lowest rank in sea:1, rail:2, road:3, air:4, for every origin,
\*     destination, date and context and whatever the scores are; the safest
\*     mode reported is a mode of lowest computed overall.
\* ------------------------------------------------------------------------
\* the overall of the lane of the answer by mode i of sea, air, road, rail
C15_Overall(i) ==
    compute_route_risk(FirstAnswer.origin[1], FirstAnswer.dest[1], ModeList[i],
                       args.today, "Balanced", TRUE, 0, FALSE).overall

C15_IsSafest(rec) ==
    \E i \in 1..Len(ModeList) :
        /\ rec.mode = upper(ModeList[i])
        /\ rec.overall = C15_Overall(i)
        /\ \A j \in 1..Len(ModeList) : C15_Overall(i) <= C15_Overall(j)

C15_CheapestIsSea ==
    (Asked /\ FirstAnswer.intent = "UniversalBestRoute") =>
        /\ FirstAnswer.cheapest = Some("SEA")
        /\ C15_IsSafest(FirstAnswer.recommended[1])

\* "cheapest USA to China" with a lane analysed: AIR is the safest, SEA the cheapest
C15_Witness ==
    /\ Asked
    /\ FirstAnswer.intent = "UniversalBestRoute"
    /\ IsSet(last_route)
    /\ FirstAnswer.recommended[1].mode = "AIR"
    /\ FirstAnswer.cheapest = Some("SEA")
    /\ C15_Overall(1) > C15_Overall(2)

\* ------------------------------------------------------------------------
\* C20 A GeneralStrategy response carries the 'Current lane in focus' line
\*     if and only if a route and an assessment exist and the prompt holds
\*     one of: this route, last route, current route, this lane, last lane,
\*     current lane; its framing names origin and destination exactly when
\*     two locations were resolved.
\* ------------------------------------------------------------------------
C20_Refs ==
    << <<"t", "h", "i", "s", " ", "r", "o", "u", "t", "e">>, <<"l", "a", "s", "t", " ", "r", "o", "u", "t", "e">>, <<"c", "u", "r", "r", "e", "n", "t", " ", "r", "o", "u", "t", "e">>,
      <<"t", "h", "i", "s", " ", "l", "a", "n", "e">>, <<"l", "a", "s", "t", " ", "l", "a", "n", "e">>, <<"c", "u", "r", "r", "e", "n", "t", " ", "l", "a", "n", "e">> >>

C20_Resolved == HasPair(ExtractLane(detect_countries(user_prompt), Lowered))

C20_FocusOnReference ==
    (Asked /\ FirstAnswer.intent = "GeneralStrategy") =>
        /\ IsSet(FirstAnswer.focus) <=>
               (IsSet(last_route) /\ IsSet(last_risks) /\ AnyIn(C20_Refs, Lowered))
        /\ (IsSet(FirstAnswer.origin) /\ IsSet(FirstAnswer.dest)) <=> C20_Resolved

\* "strategy current route" asked with a lane analysed: no line of the lane
C20_Witness ==
    /\ Asked
    /\ FirstAnswer.intent = "GeneralStrategy"
    /\ IsSet(last_route) /\ IsSet(last_risks)
    /\ Contains(<<"c", "u", "r", "r", "e", "n", "t", " ", "r", "o", "u", "t", "e">>, Lowered)
    /\ FirstAnswer.focus = None

\* ------------------------------------------------------------------------
\* Scenario Lab (render_scenario_lab)
\* ------------------------------------------------------------------------
\* the float of a score reported as t tenths: round(x, 1) returns the float
\* nearest to t / 10
Reported(t) == FDiv(t, 10)

\* the float of a slider at n hundredths (the sliders step by 0.01)
Slider(n) == FDiv(n, 100)

\* round(rs[k] * mult, 1), in tenths
Stress(t, n) == Round1(FMul(Reported(t), Slider(n)))

\* StressedOverall with the Geo-heavy weights
StressedOverall_geo_heavy(g, c, l, cb) ==
    Clip(Round1(FAdd(FAdd(FAdd(FMul(Reported(g), F0_45), FMul(Reported(c), F0_25)),
                          FMul(Reported(l), F0_2)),
                     FMul(Reported(cb), F0_1))), 0, 1000)

\* float(np.clip(round(g * 0.35 + c * 0.3 + l * 0.25 + cb * 0.1, 1), 0, 100))
StressedOverall(g, c, l, cb) ==
    Clip(Round1(FAdd(FAdd(FAdd(FMul(Reported(g), F0_35), FMul(Reported(c), F0_3)),
                          FMul(Reported(l), F0_25)),
                     FMul(Reported(cb), F0_1))), 0, 1000)

StressedWith(g, c, l, cb) ==
    [geopolitical |-> g, climate |-> c, logistics |-> l, cyber |-> cb,
     overall |-> StressedOverall(g, c, l, cb)]

\* the dict "stressed" of base assessment rs under the four multipliers
Stressed(rs, geo_m, cli_m, log_m, cyb_m) ==
    StressedWith(Stress(rs.geopolitical, geo_m), Stress(rs.climate, cli_m),
                 Stress(rs.logistics, log_m), Stress(rs.cyber, cyb_m))

\* the ranges of the four sliders, in hundredths
SliderRange == <<80..160, 80..180, 80..160, 80..150>>

\* the sliders as first shown: 1.1, 1.2, 1.1, 1.0
SliderDefaults == <<110, 120, 110, 100>>

\* "Run stress scenario" with sliders m, a lane being there
RunScenario(m) ==
    /\ scenario' = Some(Stressed(last_risks[1], m[1], m[2], m[3], m[4]))
    /\ UNCHANGED <<last_route, last_risks, optimizer_options, multi_routes>>

\* ------------------------------------------------------------------------
\* Text of the prompts the tool builds
\* ------------------------------------------------------------------------
\* the characters of the mode names, profiles and labels, with the gazetteer
Letters ==
    Spelling @@
    ("sea" :> <<"s", "e", "a">>) @@ ("air" :> <<"a", "i", "r">>) @@ ("road" :> <<"r", "o", "a", "d">>) @@ ("rail" :> <<"r", "a", "i", "l">>) @@
    ("SEA" :> <<"S", "E", "A">>) @@ ("AIR" :> <<"A", "I", "R">>) @@ ("ROAD" :> <<"R", "O", "A", "D">>) @@ ("RAIL" :> <<"R", "A", "I", "L">>) @@
    ("Balanced" :> <<"B", "a", "l", "a", "n", "c", "e", "d">>) @@ ("Geo-heavy" :> <<"G", "e", "o", "-", "h", "e", "a", "v", "y">>) @@
    ("Climate-heavy" :> <<"C", "l", "i", "m", "a", "t", "e", "-", "h", "e", "a", "v", "y">>) @@ ("Logistics-heavy" :> <<"L", "o", "g", "i", "s", "t", "i", "c", "s", "-", "h", "e", "a", "v", "y">>) @@
    ("Mode shift" :> <<"M", "o", "d", "e", " ", "s", "h", "i", "f", "t">>) @@ ("Region shift" :> <<"R", "e", "g", "i", "o", "n", " ", "s", "h", "i", "f", "t">>)

\* the line break, and the arrow U+2192 as one element of a text
NL == <<"\n">>
Arrow == <<"->">>

\* str(n) for an int n >= 0
RECURSIVE IntText(_)
IntText(n) == IF n < 10 THEN <<Digit(n)>> ELSE IntText(n \div 10) \o <<Digit(n % 10)>>

\* str(x) and repr(x) for the float of t tenths: 52.1, 40.0, 100.0
FloatText(t) == IntText(t \div 10) \o <<".", Digit(t % 10)>>

\* repr of a str and of a bool
Quoted(s) == <<"'">> \o Letters[s] \o <<"'">>
BoolText(b) == IF b THEN <<"T", "r", "u", "e">> ELSE <<"F", "a", "l", "s", "e">>

\* the dates of the date picker explored
Calendar == { Date(y, m, d) : y \in 2024..2025, m \in 1..12, d \in {1, 15, 28} }

\* date.fromisoformat(s): the date whose ISO form is s
fromisoformat(s) == CHOOSE d \in Calendar : isoformat(d) = s

\* the characters of the ISO form of a date
Pad2Text(n) == <<Digit((n \div 10) % 10), Digit(n % 10)>>
IsoText(d) ==
    Pad2Text(d.year \div 100) \o Pad2Text(d.year % 100) \o <<"-">> \o Pad2Text(d.month)
        \o <<"-">> \o Pad2Text(d.day)

\* 'key': value
Item(key, value) == <<"'">> \o key \o <<"'", ":", " ">> \o value
Comma == <<",", " ">>

\* repr of the dict returned by compute_route_risk
RisksText(rs) ==
    <<"{">> \o Item(<<"g", "e", "o", "p", "o", "l", "i", "t", "i", "c", "a", "l">>, FloatText(rs.geopolitical)) \o Comma
        \o Item(<<"c", "l", "i", "m", "a", "t", "e">>, FloatText(rs.climate)) \o Comma
        \o Item(<<"l", "o", "g", "i", "s", "t", "i", "c", "s">>, FloatText(rs.logistics)) \o Comma
        \o Item(<<"c", "y", "b", "e", "r">>, FloatText(rs.cyber)) \o Comma
        \o Item(<<"o", "v", "e", "r", "a", "l", "l">>, FloatText(rs.overall)) \o Comma
        \o Item(<<"c", "o", "n", "f", "l", "i", "c", "t", "_", "b", "u", "m", "p">>, IntText(rs.conflict_bump)) \o <<"}">>

\* repr of the dict "stressed"
StressedText(s) ==
    <<"{">> \o Item(<<"g", "e", "o", "p", "o", "l", "i", "t", "i", "c", "a", "l">>, FloatText(s.geopolitical)) \o Comma
        \o Item(<<"c", "l", "i", "m", "a", "t", "e">>, FloatText(s.climate)) \o Comma
        \o Item(<<"l", "o", "g", "i", "s", "t", "i", "c", "s">>, FloatText(s.logistics)) \o Comma
        \o Item(<<"c", "y", "b", "e", "r">>, FloatText(s.cyber)) \o Comma
        \o Item(<<"o", "v", "e", "r", "a", "l", "l">>, FloatText(s.overall)) \o <<"}">>

\* repr of the dict in last_route
RouteText(r) ==
    <<"{">> \o Item(<<"o", "r", "i", "g", "i", "n">>, Quoted(r.origin)) \o Comma
        \o Item(<<"d", "e", "s", "t">>, Quoted(r.dest)) \o Comma
        \o Item(<<"m", "o", "d", "e">>, Quoted(r.mode)) \o Comma
        \o Item(<<"d", "a", "t", "e">>, <<"'">> \o IsoText(fromisoformat(r.date)) \o <<"'">>) \o Comma
        \o Item(<<"w", "e", "i", "g", "h", "t", "i", "n", "g">>, Quoted(r.weighting)) \o Comma
        \o Item(<<"c", "o", "n", "f", "l", "i", "c", "t">>, BoolText(r.conflict)) \o <<"}">>

\* repr of one option and of the list of options
OptionText(x) ==
    <<"{">> \o Item(<<"l", "a", "b", "e", "l">>, Quoted(x.label)) \o Comma
        \o Item(<<"o", "r", "i", "g", "i", "n">>, Quoted(x.origin)) \o Comma
        \o Item(<<"d", "e", "s", "t">>, Quoted(x.dest)) \o Comma
        \o Item(<<"m", "o", "d", "e">>, Quoted(x.mode)) \o Comma
        \o Item(<<"r", "i", "s", "k", "s">>, RisksText(x.risks)) \o <<"}">>

RECURSIVE Joined(_, _)
Joined(texts, sep) ==
    IF texts = <<>> THEN <<>>
    ELSE IF Len(texts) = 1 THEN texts[1]
    ELSE texts[1] \o sep \o Joined(Tail(texts), sep)

OptionsText(opts) ==
    <<"[">> \o Joined([i \in 1..Len(opts) |-> OptionText(opts[i])], Comma) \o <<"]">>

\* the prompt of "Explain with AI" in the Route Analyzer
ExplainPrompt(r, rs) ==
    NL \o <<"R", "o", "u", "t", "e", ":", " ">> \o Letters[r.origin] \o <<" ">> \o Arrow \o <<" ">> \o Letters[r.dest]
       \o <<" ", "v", "i", "a", " ">> \o Letters[upper(r.mode)]
       \o NL \o <<"S", "c", "o", "r", "e", "s", ":", " ", "G", "e", "o", "=">> \o FloatText(rs.geopolitical)
       \o <<",", " ", "C", "l", "i", "m", "a", "t", "e", "=">> \o FloatText(rs.climate) \o <<",">>
       \o NL \o <<"L", "o", "g", "i", "s", "t", "i", "c", "s", "=">> \o FloatText(rs.logistics)
       \o <<",", " ", "C", "y", "b", "e", "r", "=">> \o FloatText(rs.cyber)
       \o <<",", " ", "O", "v", "e", "r", "a", "l", "l", "=">> \o FloatText(rs.overall)
       \o NL \o <<"E", "x", "p", "l", "a", "i", "n", " ", "t", "o", "p", " ", "d", "r", "i", "v", "e", "r", "s", " ", "a", "n", "d", " ", "m", "i", "t", "i", "g", "a", "t", "i", "o", "n", "s", ".">> \o NL

\* one row of the basket table: the index, the lane, the five scores
BasketRow(i, x) ==
    Joined(<< IntText(i - 1),
              Letters[x.origin] \o <<" ">> \o Arrow \o <<" ">> \o Letters[x.dest]
                  \o <<" ", "(">> \o Letters[upper(x.mode)] \o <<")">>,
              FloatText(x.risks.geopolitical), FloatText(x.risks.climate),
              FloatText(x.risks.logistics), FloatText(x.risks.cyber),
              FloatText(x.risks.overall) >>, <<" ">>)

\* df.to_string() of the basket table: the header, one line per lane; the
\* padding between two columns is given as one space
BasketTable(routes) ==
    <<"L", "a", "n", "e", " ", "G", "e", "o", " ", "C", "l", "i", "m", "a", "t", "e", " ", "L", "o", "g", "i", "s", "t", "i", "c", "s", " ", "C", "y", "b", "e", "r", " ", "O", "v", "e", "r", "a", "l", "l">> \o NL
        \o Joined([i \in 1..Len(routes) |-> BasketRow(i, routes[i])], NL)

\* the prompt of "Compare with AI"
ComparePrompt(routes) == <<"C", "o", "m", "p", "a", "r", "e", " ", "t", "h", "e", "s", "e", " ", "r", "o", "u", "t", "e", "s", ":">> \o NL \o BasketTable(routes)

\* the prompt of "Explain with AI" in the Scenario Lab
ScenarioPrompt(rs, stressed) ==
    <<"B", "a", "s", "e", "=">> \o RisksText(rs) \o NL \o <<"S", "t", "r", "e", "s", "s", "e", "d", "=">> \o StressedText(stressed)
        \o NL \o <<"E", "x", "p", "l", "a", "i", "n", " ", "s", "c", "e", "n", "a", "r", "i", "o", ".">>

\* the prompt of "Recommend with AI"
RecommendPrompt(r, rs, opts) ==
    <<"B", "a", "s", "e", "=">> \o RouteText(r) \o <<",", " ", "R", "i", "s", "k", "s", "=">> \o RisksText(rs)
        \o NL \o <<"O", "p", "t", "i", "o", "n", "s", "=">> \o OptionsText(opts) \o NL \o <<"A", "d", "v", "i", "s", "e", " ", "b", "e", "s", "t", " ", "c", "h", "o", "i", "c", "e", ".">>

\* ------------------------------------------------------------------------
\* Network Optimizer and Export Center
\* ------------------------------------------------------------------------
AltMode(mode) == IF mode = "sea" THEN "air" ELSE "sea"
Safer(origin) == IF origin \in {"China", "India"} THEN "Singapore" ELSE "Netherlands"

Option(label, origin, dest, mode, risks) ==
    [label |-> label, origin |-> origin, dest |-> dest, mode |-> mode, risks |-> risks]

\* alt_list for route dict r with departure date dep
Alternatives(r, dep) ==
    << Option("Mode shift", r.origin, r.dest, AltMode(r.mode),
              compute_route_risk(r.origin, r.dest, AltMode(r.mode), dep, r.weighting,
                                 r.conflict, 0, FALSE)),
       Option("Region shift", Safer(r.origin), r.dest, r.mode,
              compute_route_risk(Safer(r.origin), r.dest, r.mode, dep, r.weighting,
                                 r.conflict, 0, FALSE)) >>

\* "Generate alternatives" adding its two options to the ones stored
GenerateAlternatives_appending ==
    /\ optimizer_options' =
           Some((IF IsSet(optimizer_options) THEN optimizer_options[1] ELSE <<>>)
                \o Alternatives(last_route[1], fromisoformat(last_route[1].date)))
    /\ UNCHANGED <<last_route, last_risks, scenario, multi_routes>>

\* "Generate alternatives", a lane being there
GenerateAlternatives ==
    /\ optimizer_options' = Some(Alternatives(last_route[1], fromisoformat(last_route[1].date)))
    /\ UNCHANGED <<last_route, last_risks, scenario, multi_routes>>

\* the dict "summary" of the Export Center
Summary(r, rs) ==
    [Origin |-> r.origin, Destination |-> r.dest, Mode |-> r.mode, Date |-> r.date,
     Overall_risk |-> rs.overall, Geo |-> rs.geopolitical, Climate |-> rs.climate,
     Logistics |-> rs.logistics, Cyber |-> rs.cyber]

\* ------------------------------------------------------------------------
\* SpecTool: the five pages used in any order.  A step of a page handles one
\* interaction and leaves what it drew in response; Redraw is the next run of
\* the script, which starts from the session alone.
\* ------------------------------------------------------------------------
\* what a page drew: st.info(text), an answer of ai_call, a table, the summary
View(kind, text, answer, input) ==
    [kind |-> kind, text |-> text, answer |-> answer, input |-> input]
Info(text) == View("info", text, None, <<>>)
Markdown(answer, button, context) ==
    View("answer", "", Some(answer), [button |-> button, context |-> context])

Show(view) ==
    /\ response' = Some(view)
    /\ pc' = "shown"
    /\ UNCHANGED <<today, args, result, result2>>

\* the lanes analysed: a Geo-heavy lane from China, a lane with the conflict
\* bump, a lane of high scores with the conflict flag off
ToolLanes ==
    { <<"China", "USA", "sea", Date(2024, 7, 15), "Geo-heavy", TRUE>>,
      <<"Ukraine", "Germany", "air", Date(2024, 1, 15), "Balanced", TRUE>>,
      <<"Gaza Strip", "Bangladesh", "sea", Date(2024, 7, 15), "Balanced", FALSE>> }

\* the widget values of "Run analysis": every lane without the basket box, the
\* lanes with the conflict flag on with it
ToolInputs ==
    { <<lane, FALSE>> : lane \in ToolLanes } \cup
    { <<lane, TRUE>> : lane \in { l \in ToolLanes : l[6] } }

\* the slider positions tried: as first shown, all at 1.0, all at the top
SliderChoices == { SliderDefaults, <<100, 100, 100, 100>>, <<160, 180, 160, 150>> }

\* the questions typed in the AI Strategy Room
ToolQuestions ==
    { <<"R", "o", "u", "t", "e", ":", " ", "S", "c", "o", "r", "e", "s", ":">>,
      <<"s", "a", "f", "e", "s", "t", " ", "m", "o", "d", "e", " ", "U", "S", "A", " ", "t", "o", " ", "C", "h", "i", "n", "a", " ", "R", "o", "u", "t", "e", ":", " ", "S", "c", "o", "r", "e", "s", ":">>,
      <<"s", "t", "r", "a", "t", "e", "g", "y", " ", "t", "h", "i", "s", " ", "r", "o", "u", "t", "e">>,
      <<"c", "r", "i", "c", "k", "e", "t", " ", "U", "S", "A", " ", "t", "o", " ", "C", "h", "i", "n", "a">>,
      <<"U", "S", "A", " ", "t", "o", " ", "C", "h", "i", "n", "a">> }

InitTool ==
    /\ EmptySession
    /\ today = Date(2024, 7, 15)
    /\ args = <<>>
    /\ result = None
    /\ result2 = None
    /\ user_prompt = <<>>
    /\ response = None
    /\ pc = "ready"

\* render_route_analyzer: "Run analysis", the AI explanation card, the basket card
RouteAnalyzer ==
    /\ pc = "ready"
    /\ \/ \E w \in ToolInputs :
             /\ RunAnalysis(w[1][1], w[1][2], w[1][3], w[1][4], w[1][5], w[1][6], w[2])
             /\ Show(View("snapshot", "", None, [lane |-> w[1], add_multi |-> w[2]]))
       \/ /\ IF HasLane
             THEN Show(Markdown(ai_call("You are a supply chain advisor.",
                                        ExplainPrompt(last_route[1], last_risks[1]), 4),
                                "explain_route", <<>>))
             ELSE Show(Info("Run a lane first."))
          /\ UNCHANGED session
       \/ /\ IF multi_routes = <<>>
             THEN Show(Info("Add lanes to compare."))
             ELSE Show(Markdown(ai_call("You compare routes.", ComparePrompt(multi_routes), 4),
                                "compare", <<>>))
          /\ UNCHANGED session
    /\ UNCHANGED user_prompt

\* render_scenario_lab: "Run stress scenario", "Explain with AI"
ScenarioLab ==
    /\ pc = "ready"
    /\ IF ~IsSet(last_route)
       THEN Show(Info("Run a baseline lane first.")) /\ UNCHANGED session
       ELSE \/ \E m \in SliderChoices :
                  /\ RunScenario(m)
                  /\ Show(View("stressed", "", None, m))
            \/ /\ IF IsSet(scenario)
                  THEN Show(Markdown(ai_call("You explain scenarios.",
                                             ScenarioPrompt(last_risks[1], scenario[1]), 4),
                                     "explain_scenario", <<>>))
                  ELSE Show(Info("Run a scenario above."))
               /\ UNCHANGED session
    /\ UNCHANGED user_prompt

\* the context lines the AI Strategy Room puts under its answer
ContextParts == <<HasLane, IsSet(scenario)>>

\* render_ai_strategy_room: "Ask" with a question typed
StrategyRoom ==
    /\ pc = "ready"
    /\ \E question \in ToolQuestions :
          /\ user_prompt' = question
          /\ Show(Markdown(ai_call("You are a strategist.", question, 4), "ask", ContextParts))
    /\ UNCHANGED session

\* render_network_optimizer: "Generate alternatives", "Recommend with AI"
NetworkOptimizer ==
    /\ pc = "ready"
    /\ IF ~IsSet(last_route)
       THEN Show(Info("Run a baseline lane first.")) /\ UNCHANGED session
       ELSE \/ GenerateAlternatives /\ Show(View("options", "", None, <<>>))
            \/ /\ IsSet(optimizer_options)
               /\ Show(Markdown(ai_call("You optimize networks.",
                                        RecommendPrompt(last_route[1], last_risks[1],
                                                        optimizer_options[1]), 4),
                                "recommend_optimizer", <<>>))
               /\ UNCHANGED session
    /\ UNCHANGED user_prompt

\* render_export_center
ExportCenter ==
    /\ pc = "ready"
    /\ IF ~IsSet(last_route)
       THEN Show(Info("Nothing to export."))
       ELSE Show(View("summary", "", None, Summary(last_route[1], last_risks[1])))
    /\ UNCHANGED <<session, user_prompt>>

\* the next run of the script
Redraw ==
    /\ pc = "shown"
    /\ response' = None
    /\ user_prompt' = <<>>
    /\ pc' = "ready"
    /\ UNCHANGED <<session, today, args, result, result2>>

NextTool ==
    RouteAnalyzer \/ ScenarioLab \/ StrategyRoom \/ NetworkOptimizer \/ ExportCenter \/ Redraw

SpecTool == InitTool /\ [][NextTool]_vars

Drawn == response[1]

\* ------------------------------------------------------------------------
\* C16 "Run stress scenario" stores a scenario whose four sub-scores are the
\*     reported sub-scores of the base assessment times the multipliers,
\*     rounded to one decimal, and whose overall is recomputed from them with
\*     the weights 0.35/0.30/0.25/0.10, without the conflict bump, clamped to
\*     [0,100], whatever the profile of the base route; with all multipliers
\*     at 1.0 the stressed overall need not be the base overall.
\* ------------------------------------------------------------------------
\* the steps that run a stress scenario
StressRun == pc = "ready" /\ pc' = "shown" /\ response'[1].kind = "stressed"

\* s tenths is b tenths times n hundredths rounded to one decimal
C16_Sub(s, b, n) == Abs(100 * s - b * n) <= 50

\* a hundred times the weighted sum of the stressed sub-scores, in tenths
C16_Weighted(s) == 35 * s.geopolitical + 30 * s.climate + 25 * s.logistics + 10 * s.cyber

C16_Overall(s) ==
    IF s.overall = 1000 THEN C16_Weighted(s) >= 99950
    ELSE s.overall >= 0 /\ s.overall < 1000 /\ Abs(100 * s.overall - C16_Weighted(s)) <= 50

C16_Scenario(s, rs, m) ==
    /\ DOMAIN s = {"geopolitical", "climate", "logistics", "cyber", "overall"}
    /\ C16_Sub(s.geopolitical, rs.geopolitical, m[1])
    /\ C16_Sub(s.climate, rs.climate, m[2])
    /\ C16_Sub(s.logistics, rs.logistics, m[3])
    /\ C16_Sub(s.cyber, rs.cyber, m[4])
    /\ C16_Overall(s)

C16_StressRecomputed ==
    [][StressRun => (IsSet(scenario') /\ C16_Scenario(scenario'[1], last_risks[1], response'[1].input))]_vars

\* the Geo-heavy lane stressed with every multiplier at 1.0: the sub-scores
\* are the base ones, the overall is not
C16_Witness ==
    /\ pc = "shown" /\ Drawn.kind = "stressed"
    /\ Drawn.input = <<100, 100, 100, 100>>
    /\ last_route[1].weighting = "Geo-heavy"
    /\ scenario[1].geopolitical = last_risks[1].geopolitical
    /\ scenario[1].climate = last_risks[1].climate
    /\ scenario[1].logistics = last_risks[1].logistics
    /\ scenario[1].cyber = last_risks[1].cyber
    /\ scenario[1].overall # last_risks[1].overall

\* ------------------------------------------------------------------------
\* C17 Each "Run analysis" overwrites the route and the assessment with the
\*     new pair and, with the basket box checked, appends exactly that pair at
\*     the end of the basket; without the box the basket is unchanged; no
\*     step removes, reorders or changes a basket entry: in every step the old
\*     basket is a prefix of the new one.
\* ------------------------------------------------------------------------
\* the steps that run an analysis
RunStep == pc = "ready" /\ pc' = "shown" /\ response'[1].kind = "snapshot"

IsPrefix(a, b) == Len(a) <= Len(b) /\ SubSeq(b, 1, Len(a)) = a

C17_Run(lane, add_multi) ==
    /\ last_route' = Some(RouteDict(lane[1], lane[2], lane[3], lane[4], lane[5], lane[6]))
    /\ last_risks' = Some(compute_route_risk(lane[1], lane[2], lane[3], lane[4], lane[5],
                                             lane[6], 0, FALSE))
    /\ multi_routes' = IF add_multi
                       THEN Append(multi_routes, BasketEntry(last_route'[1], last_risks'[1]))
                       ELSE multi_routes

C17_BasketAppendOnly ==
    [][/\ IsPrefix(multi_routes, multi_routes')
       /\ RunStep => C17_Run(response'[1].input.lane, response'[1].input.add_multi)
       /\ ~RunStep => multi_routes' = multi_routes]_vars

\* a second lane appended behind the first, which the run before had replaced
\* as the current route
C17_Witness ==
    /\ pc = "shown" /\ Drawn.kind = "snapshot" /\ Drawn.input.add_multi
    /\ Len(multi_routes) = 2
    /\ multi_routes[1].origin = "China" /\ multi_routes[2].origin = "Ukraine"
    /\ last_route[1].origin = "Ukraine"
    /\ multi_routes[2].risks = last_risks[1]

\* ------------------------------------------------------------------------
\* C18 Every "Generate alternatives" replaces the options slot: whatever it
\*     held, it then holds exactly two options, 'Mode shift' and then 'Region
\*     shift', each with the assessment of compute_route_risk for its own
\*     origin, destination and mode with the date, weighting and conflict
\*     flag of the current route; generating again never grows the list.
\* ------------------------------------------------------------------------
\* the steps that generate alternatives
GenerateStep == pc = "ready" /\ pc' = "shown" /\ response'[1].kind = "options"

C18_Option(x, label, origin, dest, mode, lane) ==
    /\ x.label = label /\ x.origin = origin /\ x.dest = dest /\ x.mode = mode
    /\ x.risks = compute_route_risk(origin, dest, mode, lane[4], lane[5], lane[6], 0, FALSE)

\* the two options expected for the lane analysed last
C18_Generated(opts, lane) ==
    /\ Len(opts) = 2
    /\ C18_Option(opts[1], "Mode shift", lane[1], lane[2],
                  IF lane[3] = "sea" THEN "air" ELSE "sea", lane)
    /\ C18_Option(opts[2], "Region shift",
                  IF lane[1] \in {"China", "India"} THEN "Singapore" ELSE "Netherlands",
                  lane[2], lane[3], lane)

C18_OptionsReplaced ==
    [][GenerateStep =>
          \E lane \in ToolLanes :
              /\ last_route = Some(RouteDict(lane[1], lane[2], lane[3], lane[4], lane[5], lane[6]))
              /\ IsSet(optimizer_options')
              /\ C18_Generated(optimizer_options'[1], lane)]_vars

\* alternatives generated for the January air lane out of Ukraine, with a
\* scenario and a basket entry of the lane from China still in the session
C18_Witness ==
    /\ pc = "shown" /\ Drawn.kind = "options"
    /\ last_route[1].origin = "Ukraine" /\ last_route[1].mode = "air"
    /\ Len(optimizer_options[1]) = 2
    /\ optimizer_options[1][1].mode = "sea"
    /\ optimizer_options[1][2].origin = "Netherlands"
    /\ optimizer_options[1][1].risks.conflict_bump = 10
    /\ IsSet(scenario)
    /\ Len(multi_routes) > 0 /\ multi_routes[1].origin = "China"

\* ------------------------------------------------------------------------
\* C19 With no current route, a route-dependent request (a prompt holding
\*     "route:" and "scores:", or the route explanation, the scenario, the
\*     optimizer or the export page) gives a short 'run a lane first' style
\*     information message: no score is computed, nothing is raised.
\* ------------------------------------------------------------------------
\* the pages and cards that need the current route
C19_RoutePages == {"Run a lane first.", "Run a baseline lane first.", "Nothing to export."}

\* the request just handled was a route-dependent one
C19_Requested ==
    \/ Contains(kw_route, lower(user_prompt)) /\ Contains(kw_scores, lower(user_prompt))
    \/ Drawn.kind \in {"stressed", "options", "summary"}
    \/ Drawn.kind = "answer" /\ Drawn.input.button \in {"explain_route", "explain_scenario", "recommend_optimizer"}
    \/ Drawn.kind = "info" /\ Drawn.text \in C19_RoutePages

C19_RunALaneFirst ==
    (pc = "shown" /\ ~IsSet(last_route) /\ C19_Requested) =>
        /\ Drawn.kind = "info"
        /\ Drawn.text \in C19_RoutePages
        /\ Drawn.answer = None

\* "safest mode USA to China Route: Scores:" asked in an empty session: the
\* four modes are scored and ranked
C19_Witness ==
    /\ pc = "shown" /\ ~IsSet(last_route) /\ ~IsSet(last_risks)
    /\ C19_Requested
    /\ Drawn.kind = "answer"
    /\ Drawn.answer[1].intent = "SafestModeComparison"
    /\ Len(Drawn.answer[1].ranking) = 4

\* ------------------------------------------------------------------------
\* SpecBand: risk_level called on each overall from 0.0 to 100.0
\* ------------------------------------------------------------------------
\* the upper end of np.clip(round(overall, 1), 0, 100), in tenths
ClipTop == 1000

InitBand ==
    /\ EmptySession
    /\ today = Date(2024, 7, 15)
    /\ args \in 0..ClipTop
    /\ result = None
    /\ result2 = None
    /\ user_prompt = <<>>
    /\ response = None
    /\ pc = "call"

\* lvl = risk_level(s)
CallBand ==
    /\ pc = "call"
    /\ result' = Some(risk_level(args))
    /\ pc' = "done"
    /\ UNCHANGED <<session, today, args, result2, user_prompt, response>>

NextBand == CallBand

SpecBand == InitBand /\ [][NextBand]_vars

\* ------------------------------------------------------------------------
\* C21 risk_level gives Low below 25, Moderate from 25 to below 50, High from
\*     50 to below 75 and Critical from 75 on: every overall in [0,100] gets
\*     exactly one band, and 25, 50 and 75 fall in the higher band.
\* ------------------------------------------------------------------------
Band == result[1]

C21_Bands ==
    pc = "done" =>
        /\ Band \in {"Low", "Moderate", "High", "Critical"}
        /\ Band = "Low" <=> args < 250
        /\ Band = "Moderate" <=> (250 <= args /\ args < 500)
        /\ Band = "High" <=> (500 <= args /\ args < 750)
        /\ Band = "Critical" <=> 750 <= args
        /\ args = 250 => Band = "Moderate"
        /\ args = 500 => Band = "High"
        /\ args = 750 => Band = "Critical"

\* the overall 75.0 is Critical
C21_Witness == pc = "done" /\ args = 750 /\ Band = "Critical"

\* ------------------------------------------------------------------------
\* SpecExplain: a lane of the gazetteer is analysed, then explained with
\* "Explain with AI"
\* ------------------------------------------------------------------------
\* the lanes: every pair of locations of the selectboxes, every mode, a winter
\* and a summer date, the widgets of "Advanced" as first shown
ExplainLanes(a) ==
    \E o \in Gazetteer, d \in Gazetteer, m \in Modes, dt \in TwoDates :
        a = <<o, d, m, dt, "Balanced", TRUE>>

InitExplain ==
    /\ EmptySession
    /\ today = Date(2024, 7, 15)
    /\ ExplainLanes(args)
    /\ result = None
    /\ result2 = None
    /\ user_prompt = <<>>
    /\ response = None
    /\ pc = "ready"

\* "Run analysis" on the lane
ExplainRun ==
    /\ pc = "ready"
    /\ RunAnalysis(args[1], args[2], args[3], args[4], args[5], args[6], FALSE)
    /\ pc' = "analysed"
    /\ UNCHANGED <<today, args, result, result2, user_prompt, response>>

\* "Explain with AI" on the lane analysed
ExplainAsk ==
    /\ pc = "analysed"
    /\ user_prompt' = ExplainPrompt(last_route[1], last_risks[1])
    /\ response' = Some(ai_call("You are a supply chain advisor.", user_prompt', 4))
    /\ pc' = "explained"
    /\ UNCHANGED <<session, today, args, result, result2>>

NextExplain == ExplainRun \/ ExplainAsk

SpecExplain == InitExplain /\ [][NextExplain]_vars

\* ------------------------------------------------------------------------
\* C22 ExplainRoute lists exactly three drivers: the three dimensions of
\*     highest value among geopolitical, climate, logistics and cyber, in
\*     non-increasing order of value, ties in the order Geopolitics, Climate,
\*     Logistics, Cyber; the dimension left out is never above a listed one,
\*     and every listed dimension carries the phrase of its own name.
\* ------------------------------------------------------------------------
Drivers == response[1].drivers

C22_Names == <<"Geopolitics", "Climate", "Logistics", "Cyber">>
C22_Rank(name) == CHOOSE i \in 1..4 : C22_Names[i] = name

\* the value of a dimension in the assessment explained
C22_Value(name) ==
    IF name = "Geopolitics" THEN last_risks[1].geopolitical
    ELSE IF name = "Climate" THEN last_risks[1].climate
    ELSE IF name = "Logistics" THEN last_risks[1].logistics
    ELSE last_risks[1].cyber

C22_Phrase ==
    ("Geopolitics" :> "geopolitical tensions, regulatory shifts or sanctions exposure") @@
    ("Climate" :> "weather volatility, storms, flooding and seasonal disruption") @@
    ("Logistics" :> "port congestion, infrastructure bottlenecks and capacity constraints") @@
    ("Cyber" :> "data security, ransomware and technology dependencies")

\* dimension a stands before dimension b in the order of the list
C22_Before(a, b) ==
    \/ C22_Value(a) > C22_Value(b)
    \/ C22_Value(a) = C22_Value(b) /\ C22_Rank(a) < C22_Rank(b)

C22_TopThree ==
    pc = "explained" =>
        /\ response[1].intent = "ExplainRoute"
        /\ Len(Drivers) = 3
        /\ \A i \in 1..3 :
              /\ Drivers[i].name \in DOMAIN C22_Phrase
              /\ Drivers[i].val = C22_Value(Drivers[i].name)
              /\ Drivers[i].driver = C22_Phrase[Drivers[i].name]
        /\ \A i \in 1..3 : \A j \in (i + 1)..3 : C22_Before(Drivers[i].name, Drivers[j].name)
        /\ \A name \in DOMAIN C22_Phrase :
              (\A i \in 1..3 : Drivers[i].name # name) =>
                  \A i \in 1..3 : /\ C22_Value(name) <= Drivers[i].val
                                  /\ C22_Before(Drivers[i].name, name)

\* Gaza Strip -> Netherlands by rail in January: 62.7, 40.0, 40.0, 40.0; the
\* list is Geopolitics, Climate, Logistics, and Cyber, as high as two of the
\* listed, is left out
C22_Witness ==
    /\ pc = "explained"
    /\ last_route[1].origin = "Gaza Strip" /\ last_route[1].dest = "Netherlands"
    /\ last_route[1].mode = "rail"
    /\ last_risks[1].climate = last_risks[1].cyber
    /\ last_risks[1].logistics = last_risks[1].cyber
    /\ Drivers[1].name = "Geopolitics" /\ Drivers[2].name = "Climate"
    /\ Drivers[3].name = "Logistics"

\* ------------------------------------------------------------------------
\* C23 An OutOfDomain or DefaultExecutiveSummary response is one fixed text:
\*     the same whatever the route, assessment, scenario and options slots
\*     hold and whatever locations the prompt names, with no context footer
\*     and no computed score.
\* ------------------------------------------------------------------------
\* a response that holds its heading alone
C23_Fixed(r) ==
    /\ r.origin = None /\ r.dest = None /\ r.lane = None /\ r.focus = None
    /\ r.drivers = <<>> /\ r.note = None
    /\ r.ranking = <<>> /\ r.recommended = None /\ r.cheapest = None
    /\ r.context = None
    /\ DOMAIN r = {"intent", "origin", "dest", "lane", "drivers", "note", "ranking",
                   "recommended", "cheapest", "focus", "context"}

C23_FixedText ==
    (pc = "shown" /\ Drawn.kind = "answer"
        /\ Drawn.answer[1].intent \in {"OutOfDomain", "DefaultExecutiveSummary"})
    => C23_Fixed(Drawn.answer[1])

\* "cricket USA to China" asked with a lane, a scenario and options stored
C23_Witness ==
    /\ pc = "shown" /\ Drawn.kind = "answer"
    /\ Drawn.answer[1].intent = "OutOfDomain"
    /\ IsSet(last_route) /\ IsSet(last_risks) /\ IsSet(scenario) /\ IsSet(optimizer_options)
    /\ Contains(Spelling["USA"], user_prompt) /\ Contains(Spelling["China"], user_prompt)
    /\ Drawn.answer[1].context = None

\* ------------------------------------------------------------------------
\* C24 In every state reached by run analysis, run stress scenario, generate
\*     alternatives, ask and explain in any order, the route slot is set if
\*     and only if the assessment slot is set, and the assessment stored is
\*     compute_route_risk of the stored route's origin, destination, mode,
\*     date, weighting and conflict flag.
\* ------------------------------------------------------------------------
\* risks is the assessment of route dict r, the dict of one of the lanes analysed
C24_AssessmentOf(r, risks) ==
    \E lane \in ToolLanes :
        /\ r = RouteDict(lane[1], lane[2], lane[3], lane[4], lane[5], lane[6])
        /\ risks = compute_route_risk(r.origin, r.dest, r.mode, lane[4], r.weighting,
                                      r.conflict, 0, FALSE)

C24_RouteHasItsAssessment ==
    /\ IsSet(last_route) <=> IsSet(last_risks)
    /\ IsSet(last_route) => C24_AssessmentOf(last_route[1], last_risks[1])

\* the lane from Ukraine analysed after the lane from China, then stressed,
\* given alternatives and asked about
C24_Witness ==
    /\ pc = "shown" /\ Drawn.kind = "answer" /\ Drawn.input.button = "ask"
    /\ IsSet(last_route) /\ IsSet(last_risks) /\ IsSet(scenario) /\ IsSet(optimizer_options)
    /\ last_route[1].origin = "Ukraine"
    /\ Len(multi_routes) > 0 /\ multi_routes[1].origin = "China"
    /\ last_risks[1].conflict_bump = 10

\* ------------------------------------------------------------------------
\* C25 "Run analysis" leaves the scenario slot and the options slot as they
\*     were: after a new route is analysed, a scenario and an option set
\*     stored for the route before are still the ones stored, and the context
\*     block handed to the response engine carries them.
\* ------------------------------------------------------------------------
\* the context footer of the answer drawn carries the scenario and the option
\* count stored now
C25_ContextCurrent ==
    (pc = "shown" /\ Drawn.kind = "answer" /\ Drawn.answer[1].context # None)
    => /\ Drawn.answer[1].context[1].scenario = scenario
       /\ Drawn.answer[1].context[1].options =
              IF IsSet(optimizer_options) /\ Len(optimizer_options[1]) > 0
              THEN Some(Len(optimizer_options[1])) ELSE None

C25_RunKeepsScenarioAndOptions ==
    [][/\ RunStep => (scenario' = scenario /\ optimizer_options' = optimizer_options)
       /\ C25_ContextCurrent']_vars

\* the scenario is a stress of the assessment stored now
C25_OfCurrentRoute ==
    \E m \in SliderChoices : scenario[1] = Stressed(last_risks[1], m[1], m[2], m[3], m[4])

\* a question asked about the lane from Ukraine while the scenario and the
\* options are those of the lane from China analysed before
C25_Witness ==
    /\ pc = "shown" /\ Drawn.kind = "answer" /\ Drawn.input.button = "ask"
    /\ HasLane /\ last_route[1].origin = "Ukraine"
    /\ IsSet(scenario) /\ ~C25_OfCurrentRoute
    /\ IsSet(optimizer_options) /\ optimizer_options[1][1].origin = "China"
    /\ Drawn.answer[1].context # None
    /\ Drawn.answer[1].context[1].lane # None
    /\ Drawn.answer[1].context[1].lane[1].origin = "Ukraine"
    /\ Drawn.answer[1].context[1].scenario = scenario
    /\ Drawn.answer[1].context[1].options = Some(2)

\* ------------------------------------------------------------------------
\* SpecModes: the four modes scored for one lane; a lane analysed and the
\* safest mode and the best route asked for it
\* ------------------------------------------------------------------------
ModesLane(o, d, dt, w, ic) ==
    [origin |-> o, dest |-> d, dep_date |-> dt, weighting |-> w, include_conflict |-> ic]

\* the lanes scored: every pair of the gazetteer, a winter and a summer date,
\* every profile, the flag off and on
ModesScored(a) ==
    \E o \in Gazetteer, d \in Gazetteer, dt \in TwoDates, w \in Profiles, ic \in BOOLEAN :
        a = ModesLane(o, d, dt, w, ic)

\* the lanes analysed before the questions: every pair of the gazetteer on a
\* winter and a summer day
ModesAsked(a) ==
    \E o \in Gazetteer, d \in Gazetteer, dt \in TwoDates :
        a = ModesLane(o, d, dt, "Balanced", TRUE)

\* the questions typed, both about the lane analysed
SafestQuestion == <<"s", "a", "f", "e", "s", "t", " ", "m", "o", "d", "e", " ", "t", "h", "i", "s", " ", "r", "o", "u", "t", "e">>
BestQuestion == <<"b", "e", "s", "t", " ", "r", "o", "u", "t", "e", " ", "t", "h", "i", "s", " ", "r", "o", "u", "t", "e">>

InitModes ==
    /\ EmptySession
    /\ \/ pc = "score" /\ ModesScored(args)
       \/ pc = "run" /\ ModesAsked(args)
    /\ today = args.dep_date
    /\ result = None
    /\ result2 = None
    /\ user_prompt = <<>>
    /\ response = None

\* compute_route_risk called for each of the four modes
ScoreModes ==
    /\ pc = "score"
    /\ result' = Some([m \in Modes |->
                         compute_route_risk(args.origin, args.dest, m, args.dep_date,
                                            args.weighting, args.include_conflict, 0, FALSE)])
    /\ pc' = "scored"
    /\ UNCHANGED <<session, today, args, result2, user_prompt, response>>

\* "Run analysis" of the lane, by sea
ModesRun ==
    /\ pc = "run"
    /\ RunAnalysis(args.origin, args.dest, "sea", args.dep_date, args.weighting,
                   args.include_conflict, FALSE)
    /\ pc' = "ready"
    /\ UNCHANGED <<today, args, result, result2, user_prompt, response>>

\* "Ask" with the question about the safest mode
AskSafest ==
    /\ pc = "ready"
    /\ user_prompt' = SafestQuestion
    /\ response' = Some(ai_call("You are a strategist.", SafestQuestion, 4))
    /\ pc' = "safest"
    /\ UNCHANGED <<session, today, args, result, result2>>

\* "Ask" with the question about the best route, the answer before kept in response
AskBest ==
    /\ pc = "safest"
    /\ user_prompt' = BestQuestion
    /\ result2' = Some(ai_call("You are a strategist.", BestQuestion, 4))
    /\ pc' = "both"
    /\ UNCHANGED <<session, today, args, result, response>>

NextModes == ScoreModes \/ ModesRun \/ AskSafest \/ AskBest

SpecModes == InitModes /\ [][NextModes]_vars

\* ------------------------------------------------------------------------
\* C26 For every pair of gazetteer locations, every date, profile and conflict
\*     flag the overall scores satisfy air < rail < road < sea and stay below
\*     the clamp at 100; SafestModeComparison and UniversalBestRoute both name
\*     AIR as the safest mode with the same score, and the ranking is air,
\*     rail, road, sea.
\* ------------------------------------------------------------------------
C26_Overall(m) == result[1][m].overall

C26_Ordered ==
    /\ C26_Overall("air") < C26_Overall("rail")
    /\ C26_Overall("rail") < C26_Overall("road")
    /\ C26_Overall("road") < C26_Overall("sea")
    /\ C26_Overall("sea") < ClipTop

\* the overall of the lane by air as the two intents compute it
C26_Air ==
    compute_route_risk(args.origin, args.dest, "air", today, "Balanced", TRUE, 0, FALSE).overall

C26_Safest(r) ==
    /\ r.intent = "SafestModeComparison"
    /\ r.origin = Some(args.origin) /\ r.dest = Some(args.dest)
    /\ r.recommended[1].mode = "AIR" /\ r.recommended[1].overall = C26_Air
    /\ Len(r.ranking) = 4
    /\ r.ranking[1].mode = "AIR" /\ r.ranking[2].mode = "RAIL"
    /\ r.ranking[3].mode = "ROAD" /\ r.ranking[4].mode = "SEA"
    /\ r.ranking[1].overall < r.ranking[2].overall
    /\ r.ranking[2].overall < r.ranking[3].overall
    /\ r.ranking[3].overall < r.ranking[4].overall

C26_Best(r, safest) ==
    /\ r.intent = "UniversalBestRoute"
    /\ r.origin = safest.origin /\ r.dest = safest.dest
    /\ r.recommended[1].mode = "AIR"
    /\ r.recommended[1].mode = safest.recommended[1].mode
    /\ r.recommended[1].overall = safest.recommended[1].overall

C26_AirRailRoadSea ==
    /\ pc = "scored" => C26_Ordered
    /\ pc \in {"safest", "both"} => C26_Safest(response[1])
    /\ pc = "both" => C26_Best(result2[1], response[1])

\* both questions answered for Gaza Strip -> Bangladesh in summer, the lane of
\* the largest scores: AIR first and SEA last, below 100
C26_Witness ==
    /\ pc = "both"
    /\ args.origin = "Gaza Strip" /\ args.dest = "Bangladesh" /\ today.month = 7
    /\ result2[1].recommended[1].mode = "AIR"
    /\ response[1].ranking[4].mode = "SEA"
    /\ response[1].ranking[4].overall < ClipTop
    /\ response[1].ranking[1].overall < response[1].ranking[4].overall

====
